---- MODULE Spec2Model ----
(***************************************************************************)
(* Model of the sub-gateway record store (src/app/storage.py), the record  *)
(* shape and override resolver (src/app/models.py) and the administrative  *)
(* entry points that wrap the store (src/app/routers/admin.py,             *)
(* src/gatewayctl.py).                                                     *)
(*                                                                         *)
(* Every process owns a CustomerStorage handle.  A store operation is      *)
(*   acquire FileLock -> _load_config and mutate in memory ->              *)
(*   _save_config (mkstemp -> dump -> move) -> release FileLock            *)
(* and each arrow separates two steps of the model, so that processes      *)
(* interleave at every access to the lock and to the files.                *)
(*                                                                         *)
(* Optional[T] values are sequences of length at most one: None is <<>>    *)
(* and a present value v is <<v>>.                                         *)
(***************************************************************************)
EXTENDS Integers, Sequences, FiniteSets, TLC

\* ---------------------------------------------------------------- bounds
MaxClock == 1       \* readings of datetime.utcnow()
MaxOps == 3         \* entry-point calls started in one behaviour

\* Two processes with a CustomerStorage handle each (the server and one
\* gatewayctl command, or two gatewayctl commands) and the two token
\* strings generate_token hands out in a behaviour.
Procs == {1, 2}
Tokens == {"tokA", "tokB"}

\* The tokens a rotation may be given as the new one: those and a fresh one.
NewTokens == Tokens \cup {"tokC"}

None == <<>>
Some(v) == <<v>>

\* ---------------------------------------------------------------- strings
\* A string (share link, name, remark, rendered line) is a sequence of
\* chunks; a chunk is a run of characters the code never splits further:
\* Ch(s) a literal run, B64(padded, content) a run of base64 text that
\* decodes to content, with or without its "=" padding, Pct(s) the
\* percent-encoding of the run s.
Ch(s) == [ch |-> s]
B64(padded, content) == [b64 |-> content, padded |-> padded]
Pct(s) == [pct |-> s]

WS == Ch(" ")
LF == Ch("\n")
Hash == Ch("#")

\* What a run of base64 text decodes to: the UTF-8 JSON text of an object
\* (its members in val), JSON text that is no object, UTF-8 text that is
\* no JSON (the string in text), bytes that are no UTF-8.
JsonObject(val) == [kind |-> "object", val |-> val]
JsonArray == [kind |-> "array"]
Utf8(text) == [kind |-> "text", text |-> text]
Bytes == [kind |-> "bytes"]

\* Share links of the base nodes and of the overrides.
SsShare ==
  <<Ch("ss://"), B64(TRUE, Utf8(<<Ch("aes-256-gcm"), Ch(":"), Ch("pw1")>>)),
    Ch("@"), Ch("1.2.3.4"), Ch(":"), Ch("8388")>>
Socks5Share == <<Ch("socks5://"), Ch("5.6.7.8"), Ch(":"), Ch("1080")>>
VlessShare == <<Ch("vless://"), Ch("uuid"), Ch("@"), Ch("v.example"),
                Ch(":"), Ch("443")>>
TrojanShare == <<Ch("trojan://"), Ch("pw"), Ch("@"), Ch("t.example"),
                 Ch(":"), Ch("443")>>

\* ---------------------------------------------------------------- records
\* models.Node: a share link and an optional structured descriptor.
Node(share) == [share |-> share, clash |-> None]

\* models.Nodes: both slots always populated.
Nodes(p, b) == [primary |-> p, backup |-> b]

\* models.Override: every field optional, no validator.
Override(p, b, n) == [primary |-> p, backup |-> b, note |-> n]

BaseNodes == Nodes(Node(SsShare), Node(Socks5Share))
OtherNodes == Nodes(Node(VlessShare), Node(TrojanShare))
OvPrimary == Node(<<Ch("vmess://"), Ch("override-primary")>>)
OvBackup == Node(<<Ch("trojan://"), Ch("override-backup")>>)

\* models.Customer as the entry points build it: optional fields default to
\* None, both timestamps are read from the clock by the caller.  rid is a
\* history field (not in the source): the identity of the record, so that
\* properties can follow one record across a token rotation.
Customer(token, name, t, rid) ==
  [token |-> token, name |-> name, enabled |-> TRUE, nodes |-> BaseNodes,
   override |-> None, ip_source |-> None, expires_at |-> None,
   remark |-> None, primary_name |-> None, backup_name |-> None,
   created_at |-> t, updated_at |-> t, rid |-> rid]

\* Keyword arguments of update_customer; None means "not supplied".
Kwargs(name, enabled, nodes, ip_source, expires_at, remark, pn, bn) ==
  [name |-> name, enabled |-> enabled, nodes |-> nodes,
   ip_source |-> ip_source, expires_at |-> expires_at, remark |-> remark,
   primary_name |-> pn, backup_name |-> bn]

\* ---------------------------------------------------------------- files
\* settings.customers_path; paths are <<name, owner>> pairs.
ConfigPath == <<"customers.yml", 0>>

\* Mutant of TempPath: the dump is written straight into the document.
TempPathInPlace(p) == ConfigPath

\* tempfile.mkstemp(suffix='.yml', dir=config_path.parent): a fresh name in
\* the same directory; one per process at a time.
TempPath(p) == <<"tmp.yml", p>>

Absent == [exists |-> FALSE]

\* A file under construction holds a prefix of the dump; complete is set
\* when yaml.dump has returned and the file is closed.  The dump writes
\* config.model_dump(mode='json') and the load validates it back into
\* CustomersConfig: for records whose token has at least 32 characters (all
\* tokens of the model stand for such strings) the load returns the records
\* that were dumped, field by field.
\* valid tells whether yaml.safe_load and CustomersConfig(**data) accept
\* the text: they accept an empty file and every dump of the store.
EmptyFile ==
  [exists |-> TRUE, recs |-> <<>>, complete |-> FALSE, valid |-> TRUE]
Dumped(config) ==
  [exists |-> TRUE, recs |-> config, complete |-> TRUE, valid |-> TRUE]

\* A document the load rejects as a whole (broken YAML, or one record that
\* fails validation) although records are legible in its text.
Corrupt(config) ==
  [exists |-> TRUE, recs |-> config, complete |-> TRUE, valid |-> FALSE]

VARIABLES
  files,      \* path -> file content
  lock,       \* holder of the FileLock on customers.lock, 0 when free
  pc,         \* position of each process
  op,         \* the call each process is executing
  snap,       \* config returned by _load_config in the current call
  tosave,     \* config handed to _save_config
  result,     \* outcome of the last finished call of each process
  now,        \* datetime.utcnow()
  committed,  \* history: config installed by the last completed save
  hiwater,    \* history: per record, the highest updated_at ever persisted
  started,    \* history: entry-point calls started so far
  live,       \* history: records whose create reported success and that
              \*          no successful delete has removed
  nextRid,    \* history: identity of the next record created
  arg,        \* input of the pure function under evaluation
  ret         \* its results

vars == <<files, lock, pc, op, snap, tosave, result, now, committed, hiwater,
          started, live, nextRid, arg, ret>>

NoOp == [kind |-> "none"]

\* ---------------------------------------------------------------- store
\* Outcome of the in-memory part of a store method: what it returns or
\* raises, whether it calls _save_config, and the config it saves.
Outcome(status, save, config) ==
  [status |-> status, save |-> save, config |-> config]

HasToken(config, token) ==
  \E i \in 1..Len(config) : config[i].token = token

\* for i, customer in enumerate(config.customers): if customer.token == token
\* -- the first match, 0 when the loop falls through.
IndexOf(config, token) ==
  IF HasToken(config, token)
  THEN CHOOSE i \in 1..Len(config) :
         /\ config[i].token = token
         /\ \A j \in 1..(i - 1) : config[j].token # token
  ELSE 0

\* del config.customers[i]
DelAt(config, i) ==
  [j \in 1..(Len(config) - 1) |-> IF j < i THEN config[j] ELSE config[j + 1]]

get_customer_by_token(config, token) ==
  IF HasToken(config, token)
  THEN Some(config[IndexOf(config, token)])
  ELSE None

get_all_customers(config) == config

\* Mutant of create_customer: the duplicate test is missing.
create_customer_unchecked(config, customer) ==
  Outcome("ok", TRUE, Append(config, customer))

\* Mutant of create_customer: the new record is put first.
create_customer_front(config, customer) ==
  IF HasToken(config, customer.token)
  THEN Outcome("ValueError", FALSE, config)
  ELSE Outcome("ok", TRUE, <<customer>> \o config)

create_customer(config, customer) ==
  IF HasToken(config, customer.token)
  THEN Outcome("ValueError", FALSE, config)
  ELSE Outcome("ok", TRUE, Append(config, customer))

\* Mutant of MergeFields: "if x:" in place of "if x is not None:".
MergeFieldsTruthy(c, kw, t) ==
  [c EXCEPT
     !.name = IF kw.name # None THEN kw.name[1] ELSE @,
     !.enabled = IF kw.enabled # None /\ kw.enabled[1] THEN TRUE ELSE @,
     !.nodes = IF kw.nodes # None THEN kw.nodes[1] ELSE @,
     !.ip_source = IF kw.ip_source # None THEN kw.ip_source ELSE @,
     !.expires_at = IF kw.expires_at # None THEN kw.expires_at ELSE @,
     !.remark = IF kw.remark # None THEN kw.remark ELSE @,
     !.primary_name = IF kw.primary_name # None THEN kw.primary_name ELSE @,
     !.backup_name = IF kw.backup_name # None THEN kw.backup_name ELSE @,
     !.updated_at = t]

\* The chain of "if x is not None: customer.x = x" followed by the bump.
MergeFields(c, kw, t) ==
  [c EXCEPT
     !.name = IF kw.name # None THEN kw.name[1] ELSE @,
     !.enabled = IF kw.enabled # None THEN kw.enabled[1] ELSE @,
     !.nodes = IF kw.nodes # None THEN kw.nodes[1] ELSE @,
     !.ip_source = IF kw.ip_source # None THEN kw.ip_source ELSE @,
     !.expires_at = IF kw.expires_at # None THEN kw.expires_at ELSE @,
     !.remark = IF kw.remark # None THEN kw.remark ELSE @,
     !.primary_name = IF kw.primary_name # None THEN kw.primary_name ELSE @,
     !.backup_name = IF kw.backup_name # None THEN kw.backup_name ELSE @,
     !.updated_at = t]

update_customer(config, token, kw, t) ==
  LET i == IndexOf(config, token) IN
  IF i = 0
  THEN Outcome("None", FALSE, config)
  ELSE Outcome("ok", TRUE, [config EXCEPT ![i] = MergeFields(config[i], kw, t)])

\* Mutant of rotate_token: the test for the new token is missing.
rotate_token_unchecked(config, old_token, new_token, t) ==
  LET i == IndexOf(config, old_token) IN
  IF i = 0
  THEN Outcome("None", FALSE, config)
  ELSE Outcome("ok", TRUE,
               [config EXCEPT ![i].token = new_token, ![i].updated_at = t])

\* Mutant of rotate_token: a new record is appended under the new token
\* and the old one is left in place.
rotate_token_copy(config, old_token, new_token, t) ==
  LET i == IndexOf(config, old_token) IN
  IF HasToken(config, new_token)
  THEN Outcome("ValueError", FALSE, config)
  ELSE IF i = 0
  THEN Outcome("None", FALSE, config)
  ELSE Outcome("ok", TRUE,
               Append(config, [config[i] EXCEPT !.token = new_token,
                                                !.updated_at = t]))

rotate_token(config, old_token, new_token, t) ==
  LET i == IndexOf(config, old_token) IN
  IF HasToken(config, new_token)
  THEN Outcome("ValueError", FALSE, config)
  ELSE IF i = 0
  THEN Outcome("None", FALSE, config)
  ELSE Outcome("ok", TRUE,
               [config EXCEPT ![i].token = new_token, ![i].updated_at = t])

\* Mutant of set_override: updated_at is left alone.
set_override_nobump(config, token, override, t) ==
  LET i == IndexOf(config, token) IN
  IF i = 0
  THEN Outcome("None", FALSE, config)
  ELSE Outcome("ok", TRUE, [config EXCEPT ![i].override = Some(override)])

\* Mutant of set_override: the slots the new override leaves unset keep the
\* nodes of the previous override.
set_override_merge(config, token, override, t) ==
  LET i == IndexOf(config, token)
      prev == IF config[i].override = None
              THEN Override(None, None, None)
              ELSE config[i].override[1]
      merged == [f \in {"primary", "backup", "note"} |->
                   IF override[f] # None THEN override[f] ELSE prev[f]]
  IN IF i = 0
     THEN Outcome("None", FALSE, config)
     ELSE Outcome("ok", TRUE,
                  [config EXCEPT ![i].override = Some(merged),
                                 ![i].updated_at = t])

set_override(config, token, override, t) ==
  LET i == IndexOf(config, token) IN
  IF i = 0
  THEN Outcome("None", FALSE, config)
  ELSE Outcome("ok", TRUE,
               [config EXCEPT ![i].override = Some(override),
                              ![i].updated_at = t])

clear_override(config, token, t) ==
  LET i == IndexOf(config, token) IN
  IF i = 0
  THEN Outcome("None", FALSE, config)
  ELSE Outcome("ok", TRUE,
               [config EXCEPT ![i].override = None, ![i].updated_at = t])

\* Mutant of delete_customer: the last record is removed, whichever matched.
delete_customer_last(config, token) ==
  LET i == IndexOf(config, token) IN
  IF i = 0
  THEN Outcome("False", FALSE, config)
  ELSE Outcome("True", TRUE, DelAt(config, Len(config)))

delete_customer(config, token) ==
  LET i == IndexOf(config, token) IN
  IF i = 0
  THEN Outcome("False", FALSE, config)
  ELSE Outcome("True", TRUE, DelAt(config, i))

\* ---------------------------------------------------------------- resolver
\* Truthiness of an Optional model instance: None is falsy, any Override or
\* Node instance is truthy (pydantic models define neither __bool__ nor
\* __len__).
get_effective_primary(c) ==
  IF c.override # None /\ c.override[1].primary # None
  THEN c.override[1].primary[1]
  ELSE c.nodes.primary

\* Mutant of get_effective_backup: the primary slot of the override is
\* consulted (a copy of get_effective_primary with only the fallback edited).
get_effective_backup_copied(c) ==
  IF c.override # None /\ c.override[1].primary # None
  THEN c.override[1].primary[1]
  ELSE c.nodes.backup

get_effective_backup(c) ==
  IF c.override # None /\ c.override[1].backup # None
  THEN c.override[1].backup[1]
  ELSE c.nodes.backup

\* ---------------------------------------------------------------- calls
\* Inputs of the entry points.
UpdateInputs ==
  { Kwargs(Some("Bob"), None, None, None, None, None, None, None),
    Kwargs(Some("Bob"), Some(FALSE), Some(OtherNodes), Some("dc"),
           Some(MaxClock), Some("vip"), Some("P"), Some("B")),
    Kwargs(None, None, None, None, None, None, None, None) }

OverrideInputs ==
  { Override(Some(OvPrimary), None, None),
    Override(None, Some(OvBackup), Some("maintenance")),
    Override(None, None, Some("empty")) }

Paths == {ConfigPath} \cup {TempPath(p) : p \in Procs}

RidsOf(config) == {config[i].rid : i \in 1..Len(config)}
TokensOf(config) == {config[i].token : i \in 1..Len(config)}

\* The in-memory part of the store method a call executes.
Apply(o, config, t) ==
  CASE o.kind = "create" -> create_customer(config, o.customer)
    [] o.kind = "update" -> update_customer(config, o.token, o.kw, t)
    [] o.kind = "rotate" -> rotate_token(config, o.token, o.new_token, t)
    [] o.kind = "set_override" -> set_override(config, o.token, o.override, t)
    [] o.kind = "clear_override" -> clear_override(config, o.token, t)
    [] o.kind = "delete" -> delete_customer(config, o.token)
    [] o.kind \in {"get", "cli_get", "adm_get", "sub_get"} ->
         Outcome(IF get_customer_by_token(config, o.token) = None
                 THEN "None" ELSE "ok", FALSE, config)
    [] o.kind = "list" -> Outcome("ok", FALSE, get_all_customers(config))

\* Mutant of _load_config: the records legible in a rejected document are
\* returned.
_load_config_lenient ==
  IF files[ConfigPath].exists THEN files[ConfigPath].recs ELSE <<>>

\* try: open(config_path) ... except Exception: return CustomersConfig()
\* A missing file and a rejected text raise and degrade to the empty
\* config; a file read while it is being written yields what has been
\* written so far.
_load_config ==
  IF files[ConfigPath].exists /\ files[ConfigPath].valid
  THEN files[ConfigPath].recs
  ELSE <<>>

\* hiwater after config has been persisted.
Raise(h, config) ==
  [r \in DOMAIN h |->
     IF \E i \in 1..Len(config) :
          config[i].rid = r /\ config[i].updated_at > h[r]
     THEN config[CHOOSE i \in 1..Len(config) : config[i].rid = r].updated_at
     ELSE h[r]]

Init ==
  /\ files = [f \in Paths |-> Absent]
  /\ lock = 0
  /\ pc = [p \in Procs |-> "new"]
  /\ op = [p \in Procs |-> NoOp]
  /\ snap = [p \in Procs |-> <<>>]
  /\ tosave = [p \in Procs |-> <<>>]
  /\ result = [p \in Procs |-> "none"]
  /\ now = 0
  /\ committed = <<>>
  /\ hiwater = [r \in 1..MaxOps |-> 0]
  /\ started = 0
  /\ live = {}
  /\ nextRid = 1
  /\ arg = None
  /\ ret = None

\* CustomerStorage.__init__ / _ensure_file_exists: the existence test and
\* the save of an empty config run outside the FileLock.
Construct(p) ==
  /\ pc[p] = "new"
  /\ IF files[ConfigPath].exists
     THEN /\ pc' = [pc EXCEPT ![p] = "ready"]
          /\ UNCHANGED <<op, tosave>>
     ELSE /\ pc' = [pc EXCEPT ![p] = "mkstemp"]
          /\ op' = [op EXCEPT ![p] = [kind |-> "init"]]
          /\ tosave' = [tosave EXCEPT ![p] = <<>>]
  /\ UNCHANGED <<files, lock, snap, result, now, committed, hiwater,
                 started, live, nextRid, arg, ret>>

\* A request or command arrives at an entry point of the process.
Enter(p) ==
  /\ pc[p] = "ready"
  /\ started < MaxOps
  /\ started' = started + 1
  /\ pc' = [pc EXCEPT ![p] = "called"]
  /\ result' = [result EXCEPT ![p] = "pending"]
  /\ op' = [op EXCEPT ![p] = [kind |-> "entered", at |-> now]]
  /\ UNCHANGED <<files, lock, snap, tosave, now, committed, hiwater, live,
                 nextRid, arg, ret>>

\* The entry point calls store method o with its arguments and passes
\* "with FileLock(self.lock_path)", which blocks until the lock is free.
Begin(p, o) ==
  /\ pc[p] = "called"
  /\ lock = 0
  /\ lock' = p
  /\ op' = [op EXCEPT ![p] = o]
  /\ pc' = [pc EXCEPT ![p] = "load"]
  /\ UNCHANGED <<files, snap, tosave, result, committed, hiwater, started,
                 live, arg, ret>>

\* datetime.utcnow(): a reading t of the wall clock, not before the last
\* reading any process took.
utcnow(t) == t \in now..MaxClock

\* The store methods that read the clock when they find their record.
ReadsClock(o) ==
  o.kind \in {"update", "rotate", "set_override", "clear_override"}

\* admin.create_customer / gatewayctl.create_customer: the record is built
\* by the caller, its timestamps read from the clock before the store call
\* waits for the lock: the reading t is not before the arrival of the
\* request, and may be older than readings other processes took meanwhile.
Create(p) ==
  /\ pc[p] = "called"
  /\ \E token \in Tokens, t \in op[p].at..MaxClock :
       /\ Begin(p, [kind |-> "create",
                    customer |-> Customer(token, "Alice", t, nextRid)])
       /\ now' = IF t > now THEN t ELSE now
       /\ nextRid' = nextRid + 1

Update(p) ==
  \E token \in Tokens, kw \in UpdateInputs :
    /\ Begin(p, [kind |-> "update", token |-> token,
                 kw |-> kw])
    /\ UNCHANGED <<now, nextRid>>

Rotate(p) ==
  \E token \in Tokens, new_token \in NewTokens :
    /\ Begin(p, [kind |-> "rotate", token |-> token,
                 new_token |-> new_token])
    /\ UNCHANGED <<now, nextRid>>

\* CustomerStorage.set_override called directly: any Override value.
SetOverride(p) ==
  \E token \in Tokens, override \in OverrideInputs :
    /\ Begin(p, [kind |-> "set_override",
                 token |-> token, override |-> override])
    /\ UNCHANGED <<now, nextRid>>

ClearOverride(p) ==
  \E token \in Tokens :
    /\ Begin(p, [kind |-> "clear_override",
                 token |-> token])
    /\ UNCHANGED <<now, nextRid>>

Delete(p) ==
  \E token \in Tokens :
    /\ Begin(p, [kind |-> "delete", token |-> token])
    /\ UNCHANGED <<now, nextRid>>

GetByToken(p) ==
  \E token \in Tokens :
    /\ Begin(p, [kind |-> "get", token |-> token])
    /\ UNCHANGED <<now, nextRid>>

ListAll(p) ==
  /\ Begin(p, [kind |-> "list"])
  /\ UNCHANGED <<now, nextRid>>

\* with FileLock(self.lock_path) of a second store call of one command.
Acquire(p) ==
  /\ pc[p] = "acquire"
  /\ lock = 0
  /\ lock' = p
  /\ pc' = [pc EXCEPT ![p] = "load"]
  /\ UNCHANGED <<files, op, snap, tosave, result, now, committed, hiwater,
                 started, live, nextRid, arg, ret>>

\* config = self._load_config() and the in-memory part of the method, up to
\* the call of _save_config, a return or a raise.
LoadApply(p) ==
  /\ pc[p] = "load"
  /\ \E t \in 0..MaxClock :
       LET config == _load_config
           out == Apply(op[p], config, t)
           reads == ReadsClock(op[p]) /\ out.save
       IN /\ IF reads THEN utcnow(t) ELSE t = now
          /\ now' = t
          /\ snap' = [snap EXCEPT ![p] = config]
          /\ result' = [result EXCEPT ![p] = out.status]
          /\ IF out.save
             THEN /\ tosave' = [tosave EXCEPT ![p] = out.config]
                  /\ pc' = [pc EXCEPT ![p] = "mkstemp"]
             ELSE /\ pc' = [pc EXCEPT ![p] = "release"]
                  /\ UNCHANGED tosave
  /\ UNCHANGED <<files, lock, op, committed, hiwater, started, live,
                 nextRid, arg, ret>>

\* _save_config, first part: tempfile.mkstemp creates an empty file.
Mkstemp(p) ==
  /\ pc[p] = "mkstemp"
  /\ files' = [files EXCEPT ![TempPath(p)] = EmptyFile]
  /\ pc' = [pc EXCEPT ![p] = "dump"]
  /\ UNCHANGED <<lock, op, snap, tosave, result, now, committed, hiwater,
                 started, live, nextRid, arg, ret>>

\* _save_config, second part: yaml.dump of the whole config into the file.
Dump(p) ==
  /\ pc[p] = "dump"
  /\ files' = [files EXCEPT ![TempPath(p)] = Dumped(tosave[p])]
  /\ pc' = [pc EXCEPT ![p] = "move"]
  /\ UNCHANGED <<lock, op, snap, tosave, result, now, committed, hiwater,
                 started, live, nextRid, arg, ret>>

\* _save_config, last part: shutil.move(temp_path, config_path), a rename
\* within one directory.
Move(p) ==
  /\ pc[p] = "move"
  /\ files' = [files EXCEPT ![TempPath(p)] = Absent,
                            ![ConfigPath] = files[TempPath(p)]]
  /\ committed' = files[TempPath(p)].recs
  /\ hiwater' = Raise(hiwater, files[TempPath(p)].recs)
  /\ IF op[p].kind = "init"
     THEN /\ pc' = [pc EXCEPT ![p] = "ready"]
          /\ op' = [op EXCEPT ![p] = NoOp]
     ELSE /\ pc' = [pc EXCEPT ![p] = "release"]
          /\ UNCHANGED op
  /\ UNCHANGED <<lock, snap, tosave, result, now, started, live, nextRid,
                 arg, ret>>

\* Leaving the with block (return or raise) releases the lock; the caller
\* now has the outcome.  gatewayctl.set_override and admin.delete_customer
\* go on after their get_customer_by_token, and after their second store
\* call they report; a subscription handler goes on with the customer the
\* store returned; every other caller is done with the store.
Release(p) ==
  /\ pc[p] = "release"
  /\ lock' = 0
  /\ IF op[p].kind = "cli_get"
     THEN /\ pc' = [pc EXCEPT ![p] = "cli_check"]
          /\ UNCHANGED op
     ELSE IF op[p].kind = "adm_get"
     THEN /\ pc' = [pc EXCEPT ![p] = "adm_check"]
          /\ UNCHANGED op
     ELSE IF "via" \in DOMAIN op[p]
     THEN /\ pc' = [pc EXCEPT ![p] = "report"]
          /\ UNCHANGED op
     ELSE IF op[p].kind = "sub_get"
     THEN /\ pc' = [pc EXCEPT ![p] = "respond"]
          /\ op' = [op EXCEPT ![p] =
                      [kind |-> "respond", token |-> op[p].token,
                       fmt |-> op[p].fmt, fault |-> op[p].fault,
                       customer |->
                         get_customer_by_token(snap[p], op[p].token)]]
     ELSE /\ pc' = [pc EXCEPT ![p] = "ready"]
          /\ op' = [op EXCEPT ![p] = NoOp]
  /\ live' = CASE op[p].kind = "create" /\ result[p] = "ok" ->
                    live \cup {op[p].customer.rid}
               [] op[p].kind = "delete" /\ result[p] = "True" ->
                    live \ {snap[p][IndexOf(snap[p], op[p].token)].rid}
               [] OTHER -> live
  /\ snap' = [snap EXCEPT ![p] = <<>>]
  /\ tosave' = [tosave EXCEPT ![p] = <<>>]
  /\ UNCHANGED <<files, result, now, committed, hiwater, started, nextRid,
                 arg, ret>>

\* admin.set_override: a request without primary and backup is answered
\* 400 before the store is called.
AdminSetOverride(p) ==
  \E token \in Tokens, request \in OverrideInputs :
    IF request.primary = None /\ request.backup = None
    THEN /\ pc[p] = "called"
         /\ pc' = [pc EXCEPT ![p] = "ready"]
         /\ result' = [result EXCEPT ![p] = "HTTP400"]
         /\ op' = [op EXCEPT ![p] = NoOp]
         /\ UNCHANGED <<files, lock, snap, tosave, now, committed, hiwater,
                        started, live, nextRid, arg, ret>>
    ELSE /\ Begin(p, [kind |-> "set_override", token |-> token,
                      override |-> Override(request.primary, request.backup,
                                            request.note)])
         /\ UNCHANGED <<now, nextRid>>

\* gatewayctl.set_override, first store call: get_customer_by_token.
CliSetOverride(p) ==
  \E token \in Tokens, args \in OverrideInputs :
    /\ Begin(p, [kind |-> "cli_get", token |-> token, args |-> args])
    /\ UNCHANGED <<now, nextRid>>

\* gatewayctl.set_override between its two store calls: exit(1) when the
\* customer was not found or neither share was given, else build the
\* Override and call storage.set_override.
CliCheck(p) ==
  /\ pc[p] = "cli_check"
  /\ IF result[p] = "None"
        \/ (op[p].args.primary = None /\ op[p].args.backup = None)
     THEN /\ pc' = [pc EXCEPT ![p] = "ready"]
          /\ op' = [op EXCEPT ![p] = NoOp]
          /\ result' = [result EXCEPT ![p] = "exit1"]
     ELSE /\ pc' = [pc EXCEPT ![p] = "acquire"]
          /\ op' = [op EXCEPT ![p] =
                      [kind |-> "set_override", token |-> op[p].token,
                       override |-> Override(op[p].args.primary,
                                             op[p].args.backup,
                                             op[p].args.note),
                       via |-> "cli"]]
          /\ UNCHANGED result
  /\ UNCHANGED <<files, lock, snap, tosave, now, committed, hiwater,
                 started, live, nextRid, arg, ret>>

\* admin.delete_customer, first store call: get_customer_by_token.
AdminDelete(p) ==
  \E token \in Tokens :
    /\ Begin(p, [kind |-> "adm_get", token |-> token])
    /\ UNCHANGED <<now, nextRid>>

\* admin.delete_customer between its two store calls: 404 when the customer
\* was not found, else call storage.delete_customer.
AdminCheck(p) ==
  /\ pc[p] = "adm_check"
  /\ IF result[p] = "None"
     THEN /\ pc' = [pc EXCEPT ![p] = "ready"]
          /\ op' = [op EXCEPT ![p] = NoOp]
          /\ result' = [result EXCEPT ![p] = "HTTP404"]
     ELSE /\ pc' = [pc EXCEPT ![p] = "acquire"]
          /\ op' = [op EXCEPT ![p] =
                      [kind |-> "delete", token |-> op[p].token,
                       via |-> "admin"]]
          /\ UNCHANGED result
  /\ UNCHANGED <<files, lock, snap, tosave, now, committed, hiwater,
                 started, live, nextRid, arg, ret>>

\* Mutant of Report: success is reported only when the second store call
\* returned the customer or True.
Report_checked(p) ==
  /\ pc[p] = "report"
  /\ pc' = [pc EXCEPT ![p] = "ready"]
  /\ op' = [op EXCEPT ![p] = IF result[p] \in {"ok", "True"}
                              THEN [kind |-> "reported", via |-> op[p].via,
                                    second |-> result[p]]
                              ELSE NoOp]
  /\ result' = [result EXCEPT ![p] =
                  IF result[p] \in {"ok", "True"}
                  THEN IF op[p].via = "admin" THEN "HTTP200" ELSE "exit0"
                  ELSE IF op[p].via = "admin" THEN "HTTP404" ELSE "exit1"]
  /\ UNCHANGED <<files, lock, snap, tosave, now, committed, hiwater,
                 started, live, nextRid, arg, ret>>

\* After the second store call, whose return value is not looked at:
\* admin.delete_customer answers 200 "Customer deleted successfully",
\* gatewayctl.set_override prints its success message and exits with 0.
\* second is what the second store call returned.
Report(p) ==
  /\ pc[p] = "report"
  /\ pc' = [pc EXCEPT ![p] = "ready"]
  /\ op' = [op EXCEPT ![p] = [kind |-> "reported", via |-> op[p].via,
                              second |-> result[p]]]
  /\ result' = [result EXCEPT ![p] =
                  IF op[p].via = "admin" THEN "HTTP200" ELSE "exit0"]
  /\ UNCHANGED <<files, lock, snap, tosave, now, committed, hiwater,
                 started, live, nextRid, arg, ret>>

Next ==
  \/ \E p \in Procs :
       \/ Construct(p)
       \/ Enter(p)
       \/ Create(p)
       \/ Update(p)
       \/ Rotate(p)
       \/ SetOverride(p)
       \/ ClearOverride(p)
       \/ Delete(p)
       \/ GetByToken(p)
       \/ ListAll(p)
       \/ LoadApply(p)
       \/ Mkstemp(p)
       \/ Dump(p)
       \/ Move(p)
       \/ Release(p)

Spec == Init /\ [][Next]_vars

\* The store started on a document that does not load: customers.yml exists
\* (edited by hand, as gatewayctl create-customer asks for) and holds one
\* legible record in a text the load rejects.
InitCorrupt ==
  /\ files = [f \in Paths |->
                IF f = ConfigPath
                THEN Corrupt(<<Customer("tokA", "Mallory", 0, 0)>>)
                ELSE Absent]
  /\ lock = 0
  /\ pc = [p \in Procs |-> "new"]
  /\ op = [p \in Procs |-> NoOp]
  /\ snap = [p \in Procs |-> <<>>]
  /\ tosave = [p \in Procs |-> <<>>]
  /\ result = [p \in Procs |-> "none"]
  /\ now = 0
  /\ committed = <<>>
  /\ hiwater = [r \in 1..MaxOps |-> 0]
  /\ started = 0
  /\ live = {}
  /\ nextRid = 1
  /\ arg = None
  /\ ret = None

SpecCorrupt == InitCorrupt /\ [][Next]_vars

\* The store reached only through the admin API and gatewayctl for
\* set-override: both refuse a request that names neither node.
NextEntryPoints ==
  \/ \E p \in Procs :
       \/ Construct(p)
       \/ Enter(p)
       \/ Create(p)
       \/ AdminSetOverride(p)
       \/ CliSetOverride(p)
       \/ CliCheck(p)
       \/ Acquire(p)
       \/ Report(p)
       \/ ClearOverride(p)
       \/ LoadApply(p)
       \/ Mkstemp(p)
       \/ Dump(p)
       \/ Move(p)
       \/ Release(p)

SpecEntryPoints == Init /\ [][NextEntryPoints]_vars

\* ------------------------------------------------------- resolver calls
\* Records handed to the resolver: no override, and every override made of
\* an unset slot, a node, or a node whose share is the empty string, with
\* and without a note, over two different base node groups.
SlotInputs(n) == {None, Some(n), Some(Node(<<>>))}

ResolveInputs ==
  { [Customer("tokA", "Alice", 0, 1) EXCEPT !.nodes = nodes,
                                            !.override = override] :
      nodes \in {BaseNodes, OtherNodes},
      override \in {None} \cup
        { Some(Override(p, b, n)) :
            p \in SlotInputs(OvPrimary), b \in SlotInputs(OvBackup),
            n \in {None, Some("maintenance")} } }

\* A loaded record about to be rendered; nothing resolved yet.
InitResolve ==
  /\ files = [f \in Paths |-> Absent]
  /\ lock = 0
  /\ pc = [p \in Procs |-> "new"]
  /\ op = [p \in Procs |-> NoOp]
  /\ snap = [p \in Procs |-> <<>>]
  /\ tosave = [p \in Procs |-> <<>>]
  /\ result = [p \in Procs |-> "none"]
  /\ now = 0
  /\ committed = <<>>
  /\ hiwater = [r \in 1..MaxOps |-> 0]
  /\ started = 0
  /\ live = {}
  /\ nextRid = 1
  /\ arg \in {Some(c) : c \in ResolveInputs}
  /\ ret = [primary |-> None, backup |-> None]

\* primary_node = customer.get_effective_primary()
ResolvePrimary ==
  /\ ret.primary = None
  /\ ret' = [ret EXCEPT !.primary = Some(get_effective_primary(arg[1]))]
  /\ UNCHANGED <<files, lock, pc, op, snap, tosave, result, now, committed,
                 hiwater, started, live, nextRid, arg>>

\* backup_node = customer.get_effective_backup()
ResolveBackup ==
  /\ ret.backup = None
  /\ ret' = [ret EXCEPT !.backup = Some(get_effective_backup(arg[1]))]
  /\ UNCHANGED <<files, lock, pc, op, snap, tosave, result, now, committed,
                 hiwater, started, live, nextRid, arg>>

NextResolve == ResolvePrimary \/ ResolveBackup

SpecResolve == InitResolve /\ [][NextResolve]_vars

\* ---------------------------------------------------------------- claims
\* The persisted collection: what customers.yml holds.
Doc == _load_config

\* Process p takes a step / p's call reads the document / p's save
\* replaces the document.
StepOf(p) == pc'[p] # pc[p]
LoadStep(p) == pc[p] = "load" /\ pc'[p] # "load"
MoveStep(p) == pc[p] = "move" /\ pc'[p] = "release"

\* The config p's save installs, and the config p's call had loaded.
Installed == files'[ConfigPath].recs
Loaded(p) == snap[p]

\* Every record but the one at position i is the same in both configs.
SameExcept(old, new, i) ==
  /\ Len(new) = Len(old)
  /\ \A j \in 1..Len(old) : j # i => new[j] = old[j]

\* No process is inside a constructor or a call.
Quiescent == \A p \in Procs : pc[p] \in {"new", "ready"}

\* C1: in every reachable state of the persisted collection no two
\* records carry the same token.
C1_TokenUnique ==
  \A i, j \in 1..Len(Doc) : Doc[i].token = Doc[j].token => i = j

\* C1 witness: two records are stored and a call that offered a token
\* already present has just been refused.
C1_Witness ==
  /\ Len(Doc) = 2
  /\ \E p \in Procs : pc[p] = "release" /\ result[p] = "ValueError"

\* C2: no update is lost -- whenever no constructor or call is in
\* progress the collection holds exactly the records whose create
\* reported success and that no successful delete removed; so two
\* successful creates with distinct tokens leave exactly two records.
C2_NoLostUpdate ==
  Quiescent => RidsOf(Doc) = live

\* C3: every load returns the config installed by the last completed
\* save, and the document it reads is never a file still being written.
C3_NoPartialLoad ==
  [][\A p \in Procs :
       LoadStep(p) =>
         /\ snap'[p] = committed
         /\ files[ConfigPath].exists => files[ConfigPath].complete]_vars

\* C3 witness: a call has loaded a non-empty collection while another
\* process is in the middle of a save.
C3_Witness ==
  \E p, q \in Procs :
    /\ p # q
    /\ pc[q] \in {"dump", "move"}
    /\ pc[p] \in {"mkstemp", "release"}
    /\ Len(snap[p]) > 0

\* C4: create with a token already in the collection raises (Conflict)
\* and writes nothing; with a new token the document it installs is the
\* loaded collection with the record appended at the end.
C4_Create ==
  [][\A p \in Procs :
       op[p].kind = "create" /\ StepOf(p) =>
         /\ LoadStep(p) =>
              IF HasToken(snap'[p], op[p].customer.token)
              THEN result'[p] = "ValueError" /\ pc'[p] = "release"
              ELSE result'[p] = "ok" /\ pc'[p] = "mkstemp"
         /\ MoveStep(p) =>
              /\ result[p] = "ok"
              /\ Installed = Append(Loaded(p), op[p].customer)
         /\ ~MoveStep(p) => files'[ConfigPath] = files[ConfigPath]]_vars

\* C4 witness: a create is refused on a collection of two records, between
\* its load and its return.
C4_Witness ==
  \E p \in Procs :
    /\ pc[p] = "release"
    /\ op[p].kind = "create"
    /\ result[p] = "ValueError"
    /\ Len(snap[p]) = 2
    /\ Doc = snap[p]

\* C5: rotateToken onto a token that already exists raises and no step of
\* the call changes any file, so the record under the old token keeps
\* every field, updated_at included.
C5_RotateAtomic ==
  [][\A p \in Procs :
       /\ op[p].kind = "rotate"
       /\ StepOf(p)
       /\ HasToken(IF LoadStep(p) THEN snap'[p] ELSE snap[p],
                   op[p].new_token)
       => /\ result'[p] = "ValueError"
          /\ pc'[p] \in {"release", "ready"}
          /\ files' = files]_vars

\* C5 witness: a rotate from a stored token onto another stored token has
\* been refused.
C5_Witness ==
  \E p \in Procs :
    /\ pc[p] = "release"
    /\ op[p].kind = "rotate"
    /\ result[p] = "ValueError"
    /\ op[p].token # op[p].new_token
    /\ HasToken(Doc, op[p].token)
    /\ HasToken(Doc, op[p].new_token)

\* C6: rotateToken raises (Conflict) when the new token exists, else
\* returns None (NotFound) and writes nothing when the old one is absent,
\* else installs the loaded collection with only the token of that record
\* swapped and its updated_at set to the clock reading: the old token is
\* gone, the new token finds the same record, the length is unchanged.
C6_Rotate ==
  [][\A p \in Procs :
       op[p].kind = "rotate" /\ StepOf(p) =>
         LET old_token == op[p].token
             new_token == op[p].new_token
         IN /\ LoadStep(p) =>
                 IF HasToken(snap'[p], new_token)
                 THEN result'[p] = "ValueError" /\ pc'[p] = "release"
                 ELSE IF ~HasToken(snap'[p], old_token)
                 THEN result'[p] = "None" /\ pc'[p] = "release"
                 ELSE /\ result'[p] = "ok" /\ pc'[p] = "mkstemp"
                      /\ now' >= now
                      /\ get_customer_by_token(tosave'[p], new_token)[1]
                           .updated_at = now'
            /\ MoveStep(p) =>
                 LET i == IndexOf(Loaded(p), old_token) IN
                 /\ i # 0
                 /\ get_customer_by_token(Installed, old_token) = None
                 /\ get_customer_by_token(Installed, new_token) =
                      Some([Loaded(p)[i] EXCEPT
                              !.token = new_token,
                              !.updated_at = Installed[i].updated_at])
                 /\ SameExcept(Loaded(p), Installed, i)
            /\ ~MoveStep(p) => files'[ConfigPath] = files[ConfigPath]]_vars

\* C6 witness: a rotate has installed its result on a collection of two
\* records.
C6_Witness ==
  \E p \in Procs :
    /\ pc[p] = "release"
    /\ op[p].kind = "rotate"
    /\ result[p] = "ok"
    /\ Len(snap[p]) = 2
    /\ Doc = tosave[p]

\* C6 witness of the NotFound case.
C6_WitnessNotFound ==
  \E p \in Procs :
    /\ pc[p] = "release"
    /\ op[p].kind = "rotate"
    /\ result[p] = "None"
    /\ Len(snap[p]) = 1

RequiredFields == {"name", "enabled", "nodes"}
OptionalFields ==
  {"ip_source", "expires_at", "remark", "primary_name", "backup_name"}
UntouchedFields == {"token", "override", "created_at", "rid"}

\* C7: update returns None (NotFound) and writes nothing when the token is
\* absent; otherwise the one document it installs differs from the loaded
\* collection in that record only, where every supplied field has its new
\* value, every other field its old one and updated_at the clock reading.
C7_Update ==
  [][\A p \in Procs :
       op[p].kind = "update" /\ StepOf(p) =>
         LET kw == op[p].kw IN
         /\ LoadStep(p) =>
              IF ~HasToken(snap'[p], op[p].token)
              THEN result'[p] = "None" /\ pc'[p] = "release"
              ELSE /\ result'[p] = "ok" /\ pc'[p] = "mkstemp"
                   /\ now' >= now
                   /\ get_customer_by_token(tosave'[p], op[p].token)[1]
                        .updated_at = now'
         /\ MoveStep(p) =>
              LET i == IndexOf(Loaded(p), op[p].token)
                  old == Loaded(p)[i]
                  new == Installed[i]
              IN /\ i # 0
                 /\ SameExcept(Loaded(p), Installed, i)
                 /\ \A f \in RequiredFields :
                      new[f] = IF kw[f] # None THEN kw[f][1] ELSE old[f]
                 /\ \A f \in OptionalFields :
                      new[f] = IF kw[f] # None THEN kw[f] ELSE old[f]
                 /\ \A f \in UntouchedFields : new[f] = old[f]
                 /\ new.updated_at >= old.updated_at
         /\ ~MoveStep(p) => files'[ConfigPath] = files[ConfigPath]]_vars

\* C7 witness: an update that supplies some fields and not others has been
\* installed on a collection of two records.
C7_Witness ==
  \E p \in Procs :
    /\ pc[p] = "release"
    /\ op[p].kind = "update"
    /\ result[p] = "ok"
    /\ op[p].kw.name # None
    /\ op[p].kw.enabled = None
    /\ Len(snap[p]) = 2
    /\ Doc = tosave[p]

\* C7 witness of the NotFound case.
C7_WitnessNotFound ==
  \E p \in Procs :
    /\ pc[p] = "release"
    /\ op[p].kind = "update"
    /\ result[p] = "None"
    /\ Len(snap[p]) = 1

\* The persisted collection after the step.
DocNext ==
  IF files'[ConfigPath].exists /\ files'[ConfigPath].valid
  THEN files'[ConfigPath].recs
  ELSE <<>>

\* C8: for every record the persisted updated_at is never below a value
\* persisted for that record before; a successful update, rotate,
\* set_override or clear_override sets it to the clock reading of the
\* call; a save changes it in no other record; a call that fails writes
\* nothing.
C8_UpdatedAt ==
  [][/\ \A j \in 1..Len(DocNext) :
          DocNext[j].updated_at >= hiwater[DocNext[j].rid]
     /\ \A p \in Procs :
          /\ LoadStep(p) /\ ReadsClock(op[p]) /\ HasToken(snap'[p], op[p].token)
               /\ result'[p] # "ValueError"
             => LET i == IndexOf(snap'[p], op[p].token) IN
                /\ pc'[p] = "mkstemp"
                /\ now' >= now
                /\ tosave'[p][i].updated_at = now'
                /\ tosave'[p][i].updated_at >= snap'[p][i].updated_at
          /\ MoveStep(p) =>
               \A i \in 1..Len(Loaded(p)), j \in 1..Len(Installed) :
                 /\ Loaded(p)[i].rid = Installed[j].rid
                 /\ ~(ReadsClock(op[p]) /\ Loaded(p)[i].token = op[p].token)
                 => Installed[j].updated_at = Loaded(p)[i].updated_at
          /\ StepOf(p) /\ op[p].kind # "init"
               /\ result'[p] \in {"None", "ValueError", "False"}
             => files'[ConfigPath] = files[ConfigPath]]_vars

\* C8 witness: a stored record has been mutated at a later clock reading
\* than the one it was created at, next to a record that was not.
C8_Witness ==
  /\ Len(Doc) = 2
  /\ \E i, j \in 1..Len(Doc) :
       /\ Doc[i].updated_at > Doc[i].created_at
       /\ Doc[j].updated_at = Doc[j].created_at

\* C9: a stored override is never empty -- primary or backup is set.
C9_OverrideNotEmpty ==
  \A i \in 1..Len(Doc) :
    Doc[i].override # None =>
      \/ Doc[i].override[1].primary # None
      \/ Doc[i].override[1].backup # None

\* C10: get_effective_primary and get_effective_backup return the override's
\* node of their slot when the record has an override and that slot is set
\* in it, and the base node of their slot otherwise; they return a node for
\* every record; and the node returned for a slot does not depend on the
\* other slot of the override.
C10_Effective ==
  LET c == arg[1]
      hasOv == c.override # None
      Slot(slot) == hasOv /\ c.override[1][slot] # None
      Expected(slot) ==
        IF Slot(slot) THEN c.override[1][slot][1] ELSE c.nodes[slot]
      Flipped(slot) ==
        [c EXCEPT !.override[1][slot] =
           IF @ = None THEN Some(Node(<<Ch("ss://"), Ch("other")>>)) ELSE None]
  IN \A slot \in {"primary", "backup"} :
       ret[slot] # None =>
         /\ ret[slot][1] = Expected(slot)
         /\ "share" \in DOMAIN ret[slot][1]
         /\ hasOv =>
              /\ get_effective_primary(Flipped("backup"))
                   = get_effective_primary(c)
              /\ get_effective_backup(Flipped("primary"))
                   = get_effective_backup(c)

\* C10 witness: both slots resolved for a record whose override sets the
\* primary only: the primary comes from the override, the backup from the
\* base nodes.
C10_Witness ==
  /\ arg # None
  /\ arg[1].override # None
  /\ arg[1].override[1].primary # None
  /\ arg[1].override[1].backup = None
  /\ ret.primary = Some(arg[1].override[1].primary[1])
  /\ ret.backup = Some(arg[1].nodes.backup)
  /\ ret.primary # Some(arg[1].nodes.primary)

\* C11: set_override and clear_override return None (NotFound) and write
\* nothing when the token is absent; otherwise the document they install
\* holds, for that record, exactly the override passed (none after a clear)
\* and the nodes it had: a slot the new override leaves unset resolves to the
\* base node whatever the previous override held, and after a clear both
\* slots resolve to the base nodes.
C11_OverrideReplaced ==
  [][\A p \in Procs :
       op[p].kind \in {"set_override", "clear_override"} /\ StepOf(p) =>
         /\ LoadStep(p) =>
              IF HasToken(snap'[p], op[p].token)
              THEN result'[p] = "ok" /\ pc'[p] = "mkstemp"
              ELSE result'[p] = "None" /\ pc'[p] = "release"
         /\ MoveStep(p) =>
              LET i == IndexOf(Loaded(p), op[p].token)
                  old == Loaded(p)[i]
                  new == Installed[i]
              IN /\ i # 0
                 /\ SameExcept(Loaded(p), Installed, i)
                 /\ new.nodes = old.nodes
                 /\ new.override = IF op[p].kind = "set_override"
                                   THEN Some(op[p].override) ELSE None
                 /\ op[p].kind = "set_override" =>
                      /\ op[p].override.primary = None =>
                           get_effective_primary(new) = old.nodes.primary
                      /\ op[p].override.backup = None =>
                           get_effective_backup(new) = old.nodes.backup
                 /\ op[p].kind = "clear_override" =>
                      /\ get_effective_primary(new) = old.nodes.primary
                      /\ get_effective_backup(new) = old.nodes.backup
         /\ ~MoveStep(p) => files'[ConfigPath] = files[ConfigPath]]_vars

\* C11 witness: a set_override with only the backup set has been installed
\* over an override that had the primary set.
C11_Witness ==
  \E p \in Procs :
    /\ pc[p] = "release"
    /\ op[p].kind = "set_override"
    /\ result[p] = "ok"
    /\ op[p].override.primary = None
    /\ op[p].override.backup # None
    /\ LET i == IndexOf(snap[p], op[p].token) IN
       /\ snap[p][i].override # None
       /\ snap[p][i].override[1].primary # None
       /\ Doc = tosave[p]
       /\ get_effective_primary(Doc[i]) = Doc[i].nodes.primary

\* C11 witness of the clear: a clear_override has been installed over an
\* override.
C11_WitnessClear ==
  \E p \in Procs :
    /\ pc[p] = "release"
    /\ op[p].kind = "clear_override"
    /\ result[p] = "ok"
    /\ snap[p][IndexOf(snap[p], op[p].token)].override # None
    /\ Doc = tosave[p]

\* C12: delete returns True and installs the loaded collection without the
\* one record of that token, every other record kept in order; when no
\* record has the token it returns False and writes nothing.
C12_Delete ==
  [][\A p \in Procs :
       op[p].kind = "delete" /\ StepOf(p) =>
         /\ LoadStep(p) =>
              IF HasToken(snap'[p], op[p].token)
              THEN result'[p] = "True" /\ pc'[p] = "mkstemp"
              ELSE result'[p] = "False" /\ pc'[p] = "release"
         /\ MoveStep(p) =>
              LET i == IndexOf(Loaded(p), op[p].token) IN
              /\ i # 0
              /\ result[p] = "True"
              /\ Len(Installed) = Len(Loaded(p)) - 1
              /\ ~HasToken(Installed, op[p].token)
              /\ \A j \in 1..Len(Loaded(p)) :
                   /\ j < i => Installed[j] = Loaded(p)[j]
                   /\ j > i => Installed[j - 1] = Loaded(p)[j]
         /\ ~MoveStep(p) => files'[ConfigPath] = files[ConfigPath]]_vars

\* C12 witness: the first of two records has been deleted.
C12_Witness ==
  \E p \in Procs :
    /\ pc[p] = "release"
    /\ op[p].kind = "delete"
    /\ result[p] = "True"
    /\ Len(snap[p]) = 2
    /\ snap[p][1].token = op[p].token
    /\ Doc = tosave[p]

\* C12 witness of the repeated delete: a delete finds nothing where a
\* record was created and deleted before.
C12_WitnessAgain ==
  \E p \in Procs :
    /\ pc[p] = "release"
    /\ op[p].kind = "delete"
    /\ result[p] = "False"
    /\ nextRid > 1
    /\ live = {}
    /\ Doc = <<>>

\* The document is one the load rejects.
Unloadable == files[ConfigPath].exists /\ ~files[ConfigPath].valid

\* C13: a call that loads a rejected document sees the empty collection and
\* completes: get returns None, list returns the empty list, update,
\* rotate, set_override and clear_override return None and delete returns
\* False without writing, and create succeeds; the document a create
\* installs loads again and holds exactly the created record.
C13_CorruptDegrades ==
  [][\A p \in Procs :
       /\ LoadStep(p) /\ Unloadable =>
            /\ snap'[p] = <<>>
            /\ CASE op[p].kind = "create" ->
                      result'[p] = "ok" /\ pc'[p] = "mkstemp"
                 [] op[p].kind = "list" ->
                      result'[p] = "ok" /\ pc'[p] = "release"
                 [] op[p].kind = "delete" ->
                      result'[p] = "False" /\ pc'[p] = "release"
                 [] OTHER ->
                      result'[p] = "None" /\ pc'[p] = "release"
       /\ StepOf(p) /\ Unloadable /\ ~MoveStep(p) =>
            files'[ConfigPath] = files[ConfigPath]
       /\ MoveStep(p) /\ Unloadable =>
            /\ op[p].kind = "create"
            /\ files'[ConfigPath].valid
            /\ DocNext = <<op[p].customer>>]_vars

\* C13 witness: the two calls so far were a record-targeted call that
\* found nothing and a create whose save has replaced the rejected
\* document by a loadable one holding the created record.
C13_Witness ==
  \E p, q \in Procs :
    /\ p # q
    /\ started = 2
    /\ pc[q] = "ready" /\ result[q] \in {"None", "False"}
    /\ pc[p] = "release" /\ op[p].kind = "create" /\ result[p] = "ok"
    /\ snap[p] = <<>>
    /\ files[ConfigPath].valid
    /\ Doc = <<op[p].customer>>

\* ------------------------------------------------------------ string methods
\* str.strip(): leading and trailing whitespace removed.
strip(s) ==
  LET kept == {i \in 1..Len(s) : s[i] \notin {WS, LF}} IN
  IF kept = {}
  THEN <<>>
  ELSE SubSeq(s, CHOOSE i \in kept : \A j \in kept : i <= j,
                 CHOOSE i \in kept : \A j \in kept : i >= j)

\* str.lower() on the runs of the model that hold upper-case letters.
Lowered ==
  ("VMess://" :> "vmess://") @@ ("SS://" :> "ss://")
    @@ ("Socks5://" :> "socks5://") @@ ("VLESS://" :> "vless://")
    @@ ("Socks://" :> "socks://") @@ ("Trojan://" :> "trojan://")
    @@ ("HTTP://" :> "http://")

lower(c) ==
  IF "ch" \in DOMAIN c /\ c.ch \in DOMAIN Lowered
  THEN Ch(Lowered[c.ch])
  ELSE c

\* share.lower().startswith(prefix), prefix one run.
startswith(s, prefix) == s # <<>> /\ lower(s[1]) = Ch(prefix)

\* if '#' in share: share = share.split('#')[0]
before_hash(s) ==
  IF \E i \in 1..Len(s) : s[i] = Hash
  THEN SubSeq(s, 1, (CHOOSE i \in 1..Len(s) :
                       s[i] = Hash /\ \A j \in 1..(i - 1) : s[j] # Hash) - 1)
  ELSE s

\* The runs of the model holding a character outside letters, digits and
\* "_.-~": urllib.parse.quote(remark, safe='') percent-encodes them.  The
\* two-character CJK words of the renderer's suffixes are written by their
\* code points: U+4E3B U+7528, U+52A0 U+901F, U+5907 U+7528, U+76F4 U+8FDE.
Reserved ==
  {" ", "\n", "#", "@", ":", "A B", "U+4E3B U+7528", "U+52A0 U+901F",
   "U+5907 U+7528", "U+76F4 U+8FDE"}

quote(s) ==
  [i \in 1..Len(s) |->
     IF "ch" \in DOMAIN s[i] /\ s[i].ch \in Reserved
     THEN Pct(s[i].ch)
     ELSE s[i]]

\* base64.b64decode(text): characters outside the base64 alphabet are
\* discarded; a complete run decodes to its content and, ending in "=",
\* makes the decoder ignore what follows, and so does a run that misses its
\* padding when "==" follows it; a run that misses its padding otherwise, a
\* literal run and the empty text raise or yield bytes that are no text.
IsData(c) == "b64" \in DOMAIN c \/ c.ch \notin Reserved

b64decode(text) ==
  LET data == SelectSeq(text, IsData) IN
  IF /\ data # <<>>
     /\ "b64" \in DOMAIN data[1]
     /\ data[1].padded \/ (Len(data) >= 2 /\ data[2] = Ch("=="))
  THEN Some(data[1].b64)
  ELSE None

\* base64.b64encode(content): a complete run.
b64encode(content) == B64(TRUE, content)

\* ------------------------------------------------------------ remark codec
\* Outcome of a Python call: a returned value or an exception that escapes.
Return(v) == [exc |-> "none", value |-> v]
Raised(e) == [exc |-> e]

\* Mutant of set_ps: a new object is built that holds ps only.
set_ps_only(config, remark) == [ps |-> remark]

\* config['ps'] = remark on a dict: ps is replaced or added, every other
\* member stays.
set_ps(config, remark) ==
  [k \in DOMAIN config \cup {"ps"} |->
     IF k = "ps" THEN remark ELSE config[k]]

\* Mutant of fragment_append: an existing fragment is kept.
fragment_append_keep(share, remark) == share \o <<Hash>> \o quote(remark)

\* if '#' in share: share = share.split('#')[0]
\* return f"{share}#{urllib.parse.quote(remark, safe='')}"
fragment_append(share, remark) ==
  before_hash(share) \o <<Hash>> \o quote(remark)

\* The try block of the vmess branch: share[8:], b64decode, decode('utf-8'),
\* json.loads, config['ps'] = remark, json.dumps, b64encode.
vmess_rewrite(share, remark) ==
  LET bytes == b64decode(Tail(share)) IN
  IF bytes = None THEN Raised("binascii.Error")
  ELSE IF bytes[1].kind = "bytes" THEN Raised("UnicodeDecodeError")
  ELSE IF bytes[1].kind = "text" THEN Raised("JSONDecodeError")
  ELSE IF bytes[1].kind # "object" THEN Raised("TypeError")
  ELSE Return(<<Ch("vmess://"),
                b64encode(JsonObject(set_ps(bytes[1].val, remark)))>>)

\* Mutant of Caught: except ValueError, which the TypeError of an
\* assignment into a JSON value that is no object passes.
CaughtValueError(e) == e # "TypeError"

\* except Exception as e
Caught(e) == TRUE

add_remark_to_share_link(share, remark) ==
  LET s == strip(share) IN
  IF startswith(s, "vmess://")
  THEN LET r == vmess_rewrite(s, remark) IN
       IF r.exc = "none" THEN r
       ELSE IF Caught(r.exc) THEN Return(fragment_append(s, remark))
       ELSE r
  ELSE Return(fragment_append(s, remark))

\* Inputs of add_remark_to_share_link: link bodies of three schemes and of
\* none, vmess payloads of every kind, each with and without surrounding
\* whitespace and with no, one and two "#"; remarks with and without
\* characters that need encoding.
VmessObjects ==
  { [add |-> "h.example", port |-> "443", id |-> "uuid", net |-> "ws",
     x_custom |-> "keep", ps |-> <<Ch("old")>>],
    [add |-> "h.example", port |-> "443", id |-> "uuid"] }

ShareBodies ==
  { <<Ch("ss://"), Ch("payload")>>,
    <<Ch("VLESS://"), Ch("uuid"), Ch("@"), Ch("host")>>,
    <<Ch("garbage")>>,
    <<>>,
    <<Ch("vmess://")>>,
    <<Ch("vmess://"), Ch("e30")>>,
    <<Ch("vmess://"), B64(FALSE, JsonObject([add |-> "h.example"]))>>,
    <<Ch("vmess://"), B64(TRUE, Bytes)>>,
    <<Ch("vmess://"), B64(TRUE, Utf8(<<Ch("hello")>>))>>,
    <<Ch("VMess://"), B64(TRUE, JsonArray)>> }
  \cup { <<Ch(scheme), B64(TRUE, JsonObject(o))>> :
           scheme \in {"vmess://", "VMess://"}, o \in VmessObjects }

ShareInputs ==
  { lead \o body \o frag \o trail :
      lead \in {<<>>, <<WS>>},
      body \in ShareBodies,
      frag \in {<<>>, <<Hash, Ch("old")>>, <<Hash, Ch("a"), Hash, Ch("b")>>},
      trail \in {<<>>, <<LF>>} }

RemarkInputs ==
  { <<Ch("Alice"), Ch("-"), Ch("U+4E3B U+7528")>>,
    <<Ch("A B"), Hash, Ch("x")>> }

\* A share link and a remark about to be combined.
InitRemark ==
  /\ files = [f \in Paths |-> Absent]
  /\ lock = 0
  /\ pc = [p \in Procs |-> "new"]
  /\ op = [p \in Procs |-> NoOp]
  /\ snap = [p \in Procs |-> <<>>]
  /\ tosave = [p \in Procs |-> <<>>]
  /\ result = [p \in Procs |-> "none"]
  /\ now = 0
  /\ committed = <<>>
  /\ hiwater = [r \in 1..MaxOps |-> 0]
  /\ started = 0
  /\ live = {}
  /\ nextRid = 1
  /\ arg \in {Some([share |-> s, remark |-> r]) :
                s \in ShareInputs, r \in RemarkInputs}
  /\ ret = None

\* add_remark_to_share_link(share, remark)
InjectRemark ==
  /\ ret = None
  /\ ret' = Some(add_remark_to_share_link(arg[1].share, arg[1].remark))
  /\ UNCHANGED <<files, lock, pc, op, snap, tosave, result, now, committed,
                 hiwater, started, live, nextRid, arg>>

NextRemark == InjectRemark

SpecRemark == InitRemark /\ [][NextRemark]_vars

\* ------------------------------------------------------ claims: remark codec
\* The link is a vmess link whose payload decodes to a JSON object.
DecodableVmess(s) ==
  /\ startswith(s, "vmess://")
  /\ b64decode(Tail(s)) # None
  /\ b64decode(Tail(s))[1].kind = "object"

\* out is link up to its first "#", then "#", then remark with every run
\* that needs it percent-encoded.
FragmentForm(out, link, remark) ==
  \E n \in 0..Len(link) :
    /\ \A i \in 1..n : link[i] # Hash
    /\ n < Len(link) => link[n + 1] = Hash
    /\ Len(out) = n + 1 + Len(remark)
    /\ \A i \in 1..n : out[i] = link[i]
    /\ out[n + 1] = Hash
    /\ \A i \in 1..Len(remark) :
         out[n + 1 + i] = IF remark[i].ch \in Reserved
                          THEN Pct(remark[i].ch)
                          ELSE remark[i]

C20_VmessFieldsKept ==
  ret # None /\ DecodableVmess(strip(arg[1].share)) =>
    LET old == b64decode(Tail(strip(arg[1].share)))[1].val
        out == ret[1].value
        new == b64decode(Tail(out))
    IN /\ ret[1].exc = "none"
       /\ Len(out) = 2
       /\ out[1] = Ch("vmess://")
       /\ new # None
       /\ new[1].kind = "object"
       /\ DOMAIN new[1].val = DOMAIN old \cup {"ps"}
       /\ \A k \in DOMAIN old : k # "ps" => new[1].val[k] = old[k]
       /\ new[1].val.ps = arg[1].remark

\* C20 witness: ps replaced in an object that has a member the codec does
\* not know.
C20_Witness ==
  /\ ret # None
  /\ DecodableVmess(strip(arg[1].share))
  /\ LET old == b64decode(Tail(strip(arg[1].share)))[1].val IN
     /\ "x_custom" \in DOMAIN old
     /\ old.ps # arg[1].remark
     /\ b64decode(Tail(ret[1].value))[1].val.x_custom = "keep"
     /\ b64decode(Tail(ret[1].value))[1].val.ps = arg[1].remark

\* C20 witness of the added ps.
C20_WitnessAdded ==
  /\ ret # None
  /\ DecodableVmess(strip(arg[1].share))
  /\ "ps" \notin DOMAIN b64decode(Tail(strip(arg[1].share)))[1].val
  /\ b64decode(Tail(ret[1].value))[1].val.ps = arg[1].remark

\* ------------------------------------------------------------ display names
\* A name string as text: one run, none for the empty string.
Text(s) == IF s = "" THEN <<>> ELSE <<Ch(s)>>

\* return self.primary_name or self.name
get_primary_display_name(c) ==
  IF c.primary_name # None /\ c.primary_name[1] # ""
  THEN c.primary_name[1]
  ELSE c.name

\* return self.backup_name or self.name
get_backup_display_name(c) ==
  IF c.backup_name # None /\ c.backup_name[1] # ""
  THEN c.backup_name[1]
  ELSE c.name

\* The fixed suffixes of the two slots in the aggregated-link output.
PrimarySuffix ==
  <<Ch("-"), Ch("U+4E3B U+7528"), Ch("-"), Ch("U+52A0 U+901F")>>
BackupSuffix ==
  <<Ch("-"), Ch("U+5907 U+7528"), Ch("-"), Ch("U+76F4 U+8FDE")>>

\* ------------------------------------------------------------ v2rayN render
\* '\n'.join(lines), lines a list of two strings.
join(lines) == lines[1] \o <<LF>> \o lines[2]

\* render_v2rayn_subscription(customer): neither call of
\* add_remark_to_share_link is inside a try, an exception of either escapes.
render_v2rayn_subscription(customer) ==
  LET primary_node == get_effective_primary(customer)
      primary_share ==
        add_remark_to_share_link(primary_node.share,
                                 Text(customer.name) \o PrimarySuffix)
      backup_node == get_effective_backup(customer)
      backup_share ==
        add_remark_to_share_link(backup_node.share,
                                 Text(customer.name) \o BackupSuffix)
  IN
  IF primary_share.exc # "none" THEN primary_share
  ELSE IF backup_share.exc # "none" THEN backup_share
  ELSE Return(<<b64encode(Utf8(join(<<primary_share.value,
                                      backup_share.value>>)))>>)

\* ------------------------------------------------------------ more strings
\* c in s, for a one-character string c that is a run of its own.
Has(s, c) == \E i \in 1..Len(s) : s[i] = c

\* s.split(c, 1) and s.rsplit(c, 1) when c is in s: the two parts.
split1(s, c) ==
  LET i == CHOOSE i \in 1..Len(s) :
             s[i] = c /\ \A j \in 1..(i - 1) : s[j] # c
  IN <<SubSeq(s, 1, i - 1), SubSeq(s, i + 1, Len(s))>>

\* Mutant of rsplit1: the split is at the first separator.
rsplit1_first(s, c) ==
  LET i == CHOOSE i \in 1..Len(s) :
             s[i] = c /\ \A j \in 1..(i - 1) : s[j] # c
  IN <<SubSeq(s, 1, i - 1), SubSeq(s, i + 1, Len(s))>>

rsplit1(s, c) ==
  LET i == CHOOSE i \in 1..Len(s) :
             s[i] = c /\ \A j \in (i + 1)..Len(s) : s[j] # c
  IN <<SubSeq(s, 1, i - 1), SubSeq(s, i + 1, Len(s))>>

\* int(port) for the decimal runs of the model; None when it raises.
Decimal == ("8388" :> 8388) @@ ("1080" :> 1080) @@ ("443" :> 443)

int(s) ==
  IF Len(s) = 1 /\ "ch" \in DOMAIN s[1] /\ s[1].ch \in DOMAIN Decimal
  THEN Some(Decimal[s[1].ch])
  ELSE None

\* bytes.decode('utf-8'): None when it raises; JSON text is one run.
decode_utf8(content) ==
  IF content.kind = "bytes" THEN None
  ELSE IF content.kind = "text" THEN Some(content.text)
  ELSE Some(<<[json |-> content]>>)

\* The scheme runs that str.replace leaves in place, character by
\* character as far as the colon: "Socks5://" is "Socks5", ":", "//".
Schemes == ("Socks5://" :> "Socks5") @@ ("VMess://" :> "VMess")
             @@ ("SS://" :> "SS") @@ ("VLESS://" :> "VLESS")
             @@ ("vmess://" :> "vmess") @@ ("ss://" :> "ss")
             @@ ("vless://" :> "vless") @@ ("trojan://" :> "trojan")
             @@ ("Socks://" :> "Socks")

RECURSIVE colons(_)
colons(s) ==
  IF s = <<>> THEN <<>>
  ELSE (IF "ch" \in DOMAIN s[1] /\ s[1].ch \in DOMAIN Schemes
        THEN <<Ch(Schemes[s[1].ch]), Ch(":"), Ch("//")>>
        ELSE <<s[1]>>) \o colons(Tail(s))

\* share.replace("socks5://", "").replace("socks://", "")
IsNotSocksScheme(c) == c \notin {Ch("socks5://"), Ch("socks://")}
replace_socks(s) == colons(SelectSeq(s, IsNotSocksScheme))

\* ------------------------------------------------------------ Clash render
\* models.ClashProxy: the manual descriptor of a node.
ClashProxy(type, server, port) ==
  [type |-> type, server |-> server, port |-> port, name |-> None,
   cipher |-> None, password |-> None, username |-> None, udp |-> None]

\* A dict with the members of extra assigned into d.
update(d, extra) ==
  [k \in DOMAIN d \cup DOMAIN extra |->
     IF k \in DOMAIN extra THEN extra[k] ELSE d[k]]

\* ClashProxy.to_clash_dict(node_name): cipher, password and username are
\* copied when truthy and only for the types ss and socks5.
to_clash_dict(self, node_name) ==
  LET base == [name |-> node_name, type |-> self.type,
               server |-> self.server, port |-> self.port]
      Truthy(f) == f # None /\ f[1] # <<>>
      cipher == IF self.type = "ss" /\ Truthy(self.cipher)
                THEN [cipher |-> self.cipher[1]] ELSE <<>>
      username == IF self.type = "socks5" /\ Truthy(self.username)
                  THEN [username |-> self.username[1]] ELSE <<>>
      password == IF self.type \in {"ss", "socks5"} /\ Truthy(self.password)
                  THEN [password |-> self.password[1]] ELSE <<>>
      udp == IF self.udp # None THEN [udp |-> self.udp[1]] ELSE <<>>
  IN update(update(update(update(base, cipher), username), password), udp)

\* parse_vmess_to_clash(share): any exception of the try block gives None.
\* The ws-opts, grpc-opts and TLS members are built from the members path,
\* host, tls, sni and alpn, which no object of the model has.
parse_vmess_to_clash(share) ==
  LET bytes == b64decode(Tail(share)) IN
  IF bytes = None \/ bytes[1].kind # "object" THEN None
  ELSE
    LET config == bytes[1].val
        get(k, default) == IF k \in DOMAIN config THEN config[k] ELSE default
        port == IF "port" \in DOMAIN config
                THEN int(Text(config["port"])) ELSE Some(443)
        aid == IF "aid" \in DOMAIN config
               THEN int(Text(config["aid"])) ELSE Some(0)
        net == get("net", "tcp")
        proxy == [name |-> "", type |-> "vmess",
                  server |-> Text(get("add", "")), uuid |-> Text(get("id", "")),
                  cipher |-> Text(get("scy", "auto")), udp |-> TRUE]
    IN
    IF port = None \/ aid = None THEN None
    ELSE Some(update(update(proxy, [port |-> port[1], alterId |-> aid[1]]),
                     IF net # "tcp" THEN [network |-> net] ELSE <<>>))

\* parse_ss_to_clash(share): base64(method:password)@server:port, or the
\* whole of it in base64; any exception of the try block gives None.
parse_ss_to_clash(share) ==
  LET content == before_hash(Tail(share))
      userinfo == IF Has(content, Ch("@"))
                  THEN rsplit1(content, Ch("@"))[1]
                  ELSE content
      bytes == b64decode(userinfo \o <<Ch("==")>>)
      decoded == IF bytes = None THEN None ELSE decode_utf8(bytes[1])
  IN
  IF decoded = None THEN None
  ELSE
    LET whole == ~Has(content, Ch("@"))
        splits == whole /\ Has(decoded[1], Ch("@"))
        method_pass == IF splits
                       THEN rsplit1(decoded[1], Ch("@"))[1] ELSE decoded[1]
        server_part == IF splits THEN rsplit1(decoded[1], Ch("@"))[2]
                       ELSE rsplit1(content, Ch("@"))[2]
    IN
    IF (whole /\ ~splits) \/ ~Has(method_pass, Ch(":"))
       \/ ~Has(server_part, Ch(":"))
    THEN None
    ELSE
      LET port == int(rsplit1(server_part, Ch(":"))[2]) IN
      IF port = None THEN None
      ELSE Some([type |-> "ss",
                 server |-> rsplit1(server_part, Ch(":"))[1],
                 port |-> port[1],
                 cipher |-> split1(method_pass, Ch(":"))[1],
                 password |-> split1(method_pass, Ch(":"))[2]])

\* parse_socks5_to_clash(share): user:pass@server:port or server:port; any
\* exception of the try block gives None.
parse_socks5_to_clash(share) ==
  LET content == before_hash(replace_socks(share))
      authed == Has(content, Ch("@"))
      auth == IF authed THEN rsplit1(content, Ch("@"))[1] ELSE <<>>
      server_part == IF authed THEN rsplit1(content, Ch("@"))[2] ELSE content
      creds == IF authed /\ Has(auth, Ch(":"))
               THEN [username |-> split1(auth, Ch(":"))[1],
                     password |-> split1(auth, Ch(":"))[2]]
               ELSE <<>>
  IN
  IF ~Has(server_part, Ch(":")) THEN None
  ELSE
    LET port == int(rsplit1(server_part, Ch(":"))[2]) IN
    IF port = None THEN None
    ELSE Some(update(update([type |-> "socks5"], creds),
                     [server |-> rsplit1(server_part, Ch(":"))[1],
                      port |-> port[1]]))

\* parse_share_to_clash(share): vless and trojan links are not parsed.
parse_share_to_clash(share) ==
  LET s == strip(share) IN
  IF startswith(s, "vmess://") THEN parse_vmess_to_clash(s)
  ELSE IF startswith(s, "ss://") THEN parse_ss_to_clash(s)
  ELSE IF startswith(s, "socks5://") \/ startswith(s, "socks://")
       THEN parse_socks5_to_clash(s)
  ELSE None

\* Mutant of get_clash_proxy: the share link is tried first and the manual
\* descriptor is the fallback.
get_clash_proxy_share_first(node, node_name) ==
  LET proxy == parse_share_to_clash(node.share) IN
  IF proxy # None THEN Some(update(proxy[1], [name |-> node_name]))
  ELSE IF node.clash # None
       THEN Some(to_clash_dict(node.clash[1], node_name))
  ELSE None

\* get_clash_proxy(node, node_name): a ClashProxy instance is truthy and so
\* is every dict the parsers return.
get_clash_proxy(node, node_name) ==
  IF node.clash # None THEN Some(to_clash_dict(node.clash[1], node_name))
  ELSE LET proxy == parse_share_to_clash(node.share) IN
       IF proxy # None THEN Some(update(proxy[1], [name |-> node_name]))
       ELSE None

\* A warning line: the slot that was skipped and the customer's name.
Warning(slot, customer) == [slot |-> slot, name |-> customer.name]

\* render_clash_subscription(customer).  The YAML text is told by the
\* document it loads as and by the comment lines in front of it.  Each of
\* primary_proxy and backup_proxy is assigned once, by one call of
\* get_clash_proxy, and read several times afterwards.
render_clash_subscription(customer) ==
  LET primary_name == get_primary_display_name(customer)
      backup_name == get_backup_display_name(customer)
      rest(primary_proxy, backup_proxy) ==
        LET proxies == primary_proxy \o backup_proxy
            proxy_names ==
              (IF primary_proxy # None THEN <<primary_name>> ELSE <<>>)
                \o (IF backup_proxy # None THEN <<backup_name>> ELSE <<>>)
            warnings ==
              (IF primary_proxy = None
               THEN <<Warning("primary", customer)>> ELSE <<>>)
                \o (IF backup_proxy = None
                    THEN <<Warning("backup", customer)>> ELSE <<>>)
            config ==
              [k \in {"mixed-port", "allow-lan", "mode", "log-level",
                      "proxies", "proxy-groups", "rules"} |->
                 CASE k = "mixed-port" -> 7890
                   [] k = "allow-lan" -> FALSE
                   [] k = "mode" -> "rule"
                   [] k = "log-level" -> "info"
                   [] k = "proxies" -> proxies
                   [] k = "proxy-groups" ->
                        <<[name |-> "Proxy", type |-> "select",
                           proxies |-> proxy_names]>>
                   [] k = "rules" -> <<"MATCH,Proxy">>]
        IN IF proxies = <<>> THEN Raised("ValueError")
           ELSE Return([comments |-> warnings, document |-> config])
  IN CHOOSE content \in
       { rest(primary_proxy, backup_proxy) :
           primary_proxy \in
             {get_clash_proxy(get_effective_primary(customer), primary_name)},
           backup_proxy \in
             {get_clash_proxy(get_effective_backup(customer), backup_name)} } :
       TRUE

\* ------------------------------------------------------------ render calls
\* Manual descriptors: one for a link the parsers cannot read, one that
\* differs from what the parser reads from the link beside it.
ManualTrojan ==
  [ClashProxy("trojan", <<Ch("t.example")>>, 443)
     EXCEPT !.password = Some(<<Ch("pw")>>), !.udp = Some(TRUE)]
ManualSs ==
  [ClashProxy("ss", <<Ch("m.example")>>, 8388)
     EXCEPT !.cipher = Some(<<Ch("chacha20")>>),
            !.password = Some(<<Ch("pw2")>>)]

\* Nodes a record may hold: links the parsers read (ss, socks5, vmess in
\* either letter case), links they do not (vless, an undecodable vmess, the
\* empty string), a link with surrounding whitespace and a line break
\* inside, and nodes with a manual descriptor.
RenderNodes ==
  { Node(SsShare),
    Node(Socks5Share),
    Node(VlessShare),
    [Node(TrojanShare) EXCEPT !.clash = Some(ManualTrojan)],
    [Node(SsShare) EXCEPT !.clash = Some(ManualSs)],
    Node(<<WS, Ch("ss://"), Ch("a"), LF, Ch("ss://"), Ch("b"), Hash,
           Ch("old"), LF>>),
    Node(<<Ch("VMess://"),
           B64(TRUE, JsonObject([add |-> "h.example", port |-> "443",
                                 id |-> "uuid", net |-> "ws",
                                 ps |-> <<Ch("old")>>]))>>),
    Node(<<Ch("vmess://"), Ch("e30")>>),
    Node(<<>>) }

\* Records handed to the renderers: every pair of those nodes, each display
\* name unset, set or empty, with and without an override of one slot.
RenderInputs ==
  { [Customer("tokA", "Alice", 0, 1)
       EXCEPT !.nodes = Nodes(p, b), !.override = override,
              !.primary_name = pn, !.backup_name = bn] :
      p \in RenderNodes, b \in RenderNodes,
      override \in
        { None,
          Some(Override(Some(OvPrimary), None, Some("maintenance"))),
          Some(Override(None,
                        Some([OvBackup EXCEPT !.clash = Some(ManualTrojan)]),
                        None)) },
      pn \in {None, Some("HK-1"), Some("")},
      bn \in {None, Some("JP-2")} }

\* An enabled record found by its token; nothing rendered yet.
InitRender ==
  /\ files = [f \in Paths |-> Absent]
  /\ lock = 0
  /\ pc = [p \in Procs |-> "new"]
  /\ op = [p \in Procs |-> NoOp]
  /\ snap = [p \in Procs |-> <<>>]
  /\ tosave = [p \in Procs |-> <<>>]
  /\ result = [p \in Procs |-> "none"]
  /\ now = 0
  /\ committed = <<>>
  /\ hiwater = [r \in 1..MaxOps |-> 0]
  /\ started = 0
  /\ live = {}
  /\ nextRid = 1
  /\ arg \in {Some(c) : c \in RenderInputs}
  /\ ret = [v2rayn |-> None, clash |-> None]

\* content = render_v2rayn_subscription(customer)
RenderV2rayn ==
  /\ ret.v2rayn = None
  /\ ret' = [ret EXCEPT !.v2rayn = Some(render_v2rayn_subscription(arg[1]))]
  /\ UNCHANGED <<files, lock, pc, op, snap, tosave, result, now, committed,
                 hiwater, started, live, nextRid, arg>>

\* content = render_clash_subscription(customer)
RenderClash ==
  /\ ret.clash = None
  /\ ret' = [ret EXCEPT !.clash = Some(render_clash_subscription(arg[1]))]
  /\ UNCHANGED <<files, lock, pc, op, snap, tosave, result, now, committed,
                 hiwater, started, live, nextRid, arg>>

NextRender == RenderV2rayn \/ RenderClash

SpecRender == InitRender /\ [][NextRender]_vars

\* ------------------------------------------------------ claims: renderers
\* displayName(record, slot) of the specification: the slot's display name
\* if set, the customer's name otherwise.
displayName(record, slot) ==
  IF slot = "primary" THEN get_primary_display_name(record)
  ELSE get_backup_display_name(record)

\* The two lines the aggregated-link output has when the remarks are r1 and
\* r2, encoded.
TwoLines(c, r1, r2) ==
  <<b64encode(Utf8(join(
      <<add_remark_to_share_link(get_effective_primary(c).share, r1).value,
        add_remark_to_share_link(get_effective_backup(c).share,
                                 r2).value>>)))>>

\* C14: in the aggregated-link output the remark injected for each slot is
\* the slot's display name (the display-name override if set, the customer
\* name otherwise) followed by the slot's fixed suffix.
C14_RemarkFromDisplayName ==
  ret.v2rayn # None =>
    ret.v2rayn[1] =
      Return(TwoLines(arg[1],
                      Text(displayName(arg[1], "primary")) \o PrimarySuffix,
                      Text(displayName(arg[1], "backup")) \o BackupSuffix))

\* The remarks a line of the output may carry for a slot.
RemarksOf(c, slot) ==
  { Text(n) \o (IF slot = "primary" THEN PrimarySuffix ELSE BackupSuffix) :
      n \in {c.name, displayName(c, slot)} }

\* C15: the aggregated-link renderer never fails and never skips a slot:
\* the output decodes to exactly two lines, the first made from the
\* effective primary node and the second from the effective backup node,
\* joined by one newline, with no newline at the end.
C15_TwoLines ==
  ret.v2rayn # None =>
    /\ ret.v2rayn[1].exc = "none"
    /\ b64decode(ret.v2rayn[1].value) # None
    /\ LET text == b64decode(ret.v2rayn[1].value)[1].text IN
       /\ Cardinality({i \in 1..Len(text) : text[i] = LF}) = 1
       /\ text[Len(text)] # LF
       /\ \E r \in RemarksOf(arg[1], "primary") :
            split1(text, LF)[1] =
              add_remark_to_share_link(
                get_effective_primary(arg[1]).share, r).value
       /\ \E r \in RemarksOf(arg[1], "backup") :
            split1(text, LF)[2] =
              add_remark_to_share_link(
                get_effective_backup(arg[1]).share, r).value

\* A slot is skipped when its effective node has no manual descriptor and
\* its share link decodes to none.
Skipped(node) == node.clash = None /\ parse_share_to_clash(node.share) = None

\* The names, in slot order, of the slots that are not skipped, each made
\* of the slot's display name and the slot's suffix.
SuffixedNames(c) ==
  (IF Skipped(get_effective_primary(c)) THEN <<>>
   ELSE <<Text(displayName(c, "primary")) \o PrimarySuffix>>)
    \o (IF Skipped(get_effective_backup(c)) THEN <<>>
        ELSE <<Text(displayName(c, "backup")) \o BackupSuffix>>)

\* C16: in a successful structured-config render each produced proxy is
\* named by the display name of its slot plus the slot's suffix, the
\* proxies are in slot order, the one selection group lists exactly the
\* names of the produced proxies and the one rule selects that group.
C16_ProxyNames ==
  (ret.clash # None /\ ret.clash[1].exc = "none") =>
    LET doc == ret.clash[1].value.document
        produced == doc["proxies"]
    IN /\ [i \in 1..Len(produced) |-> Text(produced[i].name)]
            = SuffixedNames(arg[1])
       /\ Len(doc["proxy-groups"]) = 1
       /\ doc["proxy-groups"][1].proxies
            = [i \in 1..Len(produced) |-> produced[i].name]
       /\ doc["rules"] = <<"MATCH,Proxy">>
       /\ doc["proxy-groups"][1].name = "Proxy"

\* The proxy carries what the node's descriptor says: the members of the
\* manual descriptor when the node has one, the members decoded from the
\* share link otherwise.
FromNode(proxy, node) ==
  IF node.clash # None
  THEN /\ {"type", "server", "port"} \subseteq DOMAIN proxy
       /\ \A k \in DOMAIN proxy \ {"name"} :
            proxy[k] = IF k \in {"type", "server", "port"}
                       THEN node.clash[1][k]
                       ELSE node.clash[1][k][1]
  ELSE /\ parse_share_to_clash(node.share) # None
       /\ LET decoded == parse_share_to_clash(node.share)[1] IN
          /\ DOMAIN proxy \ {"name"} = DOMAIN decoded \ {"name"}
          /\ \A k \in DOMAIN proxy \ {"name"} : proxy[k] = decoded[k]

C17_WitnessNone ==
  /\ ret.clash # None
  /\ ret.clash[1].exc = "ValueError"
  /\ get_effective_primary(arg[1]) = Node(VlessShare)
  /\ get_effective_backup(arg[1]) = Node(VlessShare)

\* ------------------------------------------------------ subscription routes
\* What a handler answers: the status and whether the renderer was called.
Response(status, rendered) == [status |-> status, rendered |-> rendered]

\* Mutant of get_v2rayn_subscription: the test of customer.enabled is
\* missing.
get_v2rayn_subscription_any(customer, fault) ==
  IF customer = None THEN Response("HTTP403", FALSE)
  ELSE LET content == IF fault THEN Raised("Exception")
                      ELSE render_v2rayn_subscription(customer[1])
       IN Response(IF content.exc = "none" THEN "HTTP200" ELSE "HTTP500",
                   TRUE)

\* get_v2rayn_subscription after the store call.  fault: a statement of the
\* try block raises an exception the renderer does not raise by itself.
get_v2rayn_subscription(customer, fault) ==
  IF customer = None THEN Response("HTTP403", FALSE)
  ELSE IF ~customer[1].enabled THEN Response("HTTP403", FALSE)
  ELSE LET content == IF fault THEN Raised("Exception")
                      ELSE render_v2rayn_subscription(customer[1])
       IN Response(IF content.exc = "none" THEN "HTTP200" ELSE "HTTP500",
                   TRUE)

\* get_clash_subscription after the store call: except ValueError comes
\* before except Exception.
get_clash_subscription(customer, fault) ==
  IF customer = None THEN Response("HTTP403", FALSE)
  ELSE IF ~customer[1].enabled THEN Response("HTTP403", FALSE)
  ELSE LET content == IF fault THEN Raised("Exception")
                      ELSE render_clash_subscription(customer[1])
       IN Response(IF content.exc = "none" THEN "HTTP200"
                   ELSE IF content.exc = "ValueError" THEN "HTTP400"
                   ELSE "HTTP500",
                   TRUE)

\* GET /s/{token}/v2rayn and GET /s/{token}/clash: the handler calls
\* storage.get_customer_by_token(token).
Subscribe(p) ==
  \E token \in NewTokens, fmt \in {"v2rayn", "clash"}, fault \in BOOLEAN :
    /\ Begin(p, [kind |-> "sub_get", token |-> token, fmt |-> fmt,
                 fault |-> fault])
    /\ UNCHANGED <<now, nextRid>>

\* The handler after the store call, up to its response.  ret keeps the
\* last response and the request it answers.
Respond(p) ==
  /\ pc[p] = "respond"
  /\ \E r \in {IF op[p].fmt = "v2rayn"
               THEN get_v2rayn_subscription(op[p].customer, op[p].fault)
               ELSE get_clash_subscription(op[p].customer, op[p].fault)} :
       /\ result' = [result EXCEPT ![p] = r.status]
       /\ ret' = Some([token |-> op[p].token, fmt |-> op[p].fmt,
                       fault |-> op[p].fault, status |-> r.status,
                       rendered |-> r.rendered,
                       customer |-> op[p].customer])
  /\ pc' = [pc EXCEPT ![p] = "ready"]
  /\ op' = [op EXCEPT ![p] = NoOp]
  /\ UNCHANGED <<files, lock, snap, tosave, now, committed, hiwater,
                 started, live, nextRid, arg>>

\* gatewayctl.disable_customer / enable_customer:
\* storage.update_customer(args.token, enabled=...).
Disable(p) ==
  \E token \in Tokens :
    /\ Begin(p, [kind |-> "update", token |-> token,
                 kw |-> Kwargs(None, Some(FALSE), None, None, None, None,
                               None, None)])
    /\ UNCHANGED <<now, nextRid>>

Enable(p) ==
  \E token \in Tokens :
    /\ Begin(p, [kind |-> "update", token |-> token,
                 kw |-> Kwargs(None, Some(TRUE), None, None, None, None,
                               None, None)])
    /\ UNCHANGED <<now, nextRid>>

\* The store holds two customers: Alice, whose links both renderers read,
\* and Bob, whose vless and trojan links the Clash renderer cannot read.
StoredCustomers ==
  << Customer("tokA", "Alice", 0, 1),
     [Customer("tokB", "Bob", 0, 2) EXCEPT !.nodes = OtherNodes] >>

InitSubscribe ==
  /\ files = [f \in Paths |->
                IF f = ConfigPath THEN Dumped(StoredCustomers) ELSE Absent]
  /\ lock = 0
  /\ pc = [p \in Procs |-> "new"]
  /\ op = [p \in Procs |-> NoOp]
  /\ snap = [p \in Procs |-> <<>>]
  /\ tosave = [p \in Procs |-> <<>>]
  /\ result = [p \in Procs |-> "none"]
  /\ now = 0
  /\ committed = StoredCustomers
  /\ hiwater = [r \in 1..MaxOps |-> 0]
  /\ started = 0
  /\ live = {1, 2}
  /\ nextRid = 3
  /\ arg = None
  /\ ret = None

NextSubscribe ==
  \/ \E p \in Procs :
       \/ Construct(p)
       \/ Enter(p)
       \/ Rotate(p)
       \/ Disable(p)
       \/ Enable(p)
       \/ Subscribe(p)
       \/ LoadApply(p)
       \/ Mkstemp(p)
       \/ Dump(p)
       \/ Move(p)
       \/ Release(p)
       \/ Respond(p)

SpecSubscribe == InitSubscribe /\ [][NextSubscribe]_vars

\* ------------------------------------------------------ claims: subscription
\* The answer the statement gives for a request, from the record the store
\* holds for the token at the moment of the request.
Expected(customer, fmt, fault) ==
  IF customer = None \/ ~customer[1].enabled
  THEN Response("HTTP403", FALSE)
  ELSE IF fault THEN Response("HTTP500", TRUE)
  ELSE IF /\ fmt = "clash"
          /\ Skipped(get_effective_primary(customer[1]))
          /\ Skipped(get_effective_backup(customer[1]))
       THEN Response("HTTP400", TRUE)
  ELSE Response("HTTP200", TRUE)

\* C18: a subscription request is answered from the record the document
\* holds for its token when the store call returns: 403 without rendering
\* when there is none or it is disabled, for both formats; otherwise 500 on
\* an unexpected failure, 400 for the structured format with no renderable
\* proxy, 200 else.
C18_Access ==
  [][\A p \in Procs :
       /\ (pc[p] = "release" /\ pc'[p] = "respond") =>
            op'[p].customer = get_customer_by_token(Doc, op[p].token)
       /\ (pc[p] = "respond" /\ pc'[p] = "ready") =>
            LET e == Expected(op[p].customer, op[p].fmt, op[p].fault) IN
            /\ result'[p] = e.status
            /\ ret'[1].status = e.status
            /\ ret'[1].rendered = e.rendered
            /\ ret'[1].token = op[p].token]_vars

\* A request with the old token answered 403 after a rotation to tokC was
\* saved: the document the request read holds no record for tokA.
C18_Witness ==
  /\ ret # None
  /\ ret[1].token = "tokA"
  /\ ret[1].customer = None
  /\ ret[1].status = "HTTP403"
  /\ ~ret[1].rendered
  /\ HasToken(committed, "tokC")

\* A request for a disabled customer answered 403.
C18_WitnessDisabled ==
  /\ ret # None
  /\ ret[1].customer # None
  /\ ~ret[1].customer[1].enabled
  /\ ret[1].status = "HTTP403"

\* A structured-format request for the customer with no renderable proxy
\* answered 400, and an unexpected failure answered 500 in that format.
C18_Witness400 ==
  ret # None /\ ret[1].status = "HTTP400" /\ ret[1].fmt = "clash"

C18_Witness500 ==
  ret # None /\ ret[1].status = "HTTP500" /\ ret[1].fmt = "clash"

\* C23: in every successful structured-config render that produces two
\* proxies the two proxy names differ, so the selection group never lists
\* one name twice.
C23_DistinctNames ==
  (ret.clash # None /\ ret.clash[1].exc = "none") =>
    LET doc == ret.clash[1].value.document
        names == doc["proxy-groups"][1].proxies
    IN Len(doc["proxies"]) = 2 =>
         /\ doc["proxies"][1].name # doc["proxies"][2].name
         /\ \A i, j \in 1..Len(names) : names[i] = names[j] => i = j

\* ------------------------------------------------------------ decode calls
\* An ss link as its author writes it: the scheme, the base64 text of
\* method:password with or without its padding, "@", host, ":", port and an
\* optional fragment.
ss_link(scheme, method, password, host, port, padded, frag) ==
  <<Ch(scheme), B64(padded, Utf8(method \o <<Ch(":")>> \o password)),
    Ch("@")>> \o host \o <<Ch(":")>> \o port \o frag

\* A socks link: the scheme, optional user:pass@, host, ":", port.
socks_link(scheme, auth, host, port, frag) ==
  <<Ch(scheme)>> \o auth \o host \o <<Ch(":")>> \o port \o frag

\* Passwords with and without ":" and "@", hosts with and without colons
\* (an IPv6 literal), numeric and non-numeric ports, fragments.
Passwords ==
  { <<Ch("pw1")>>, <<Ch("p"), Ch(":"), Ch("w")>>,
    <<Ch("p"), Ch("@"), Ch("w"), Ch(":"), Ch("x"), Ch("@")>> }
Hosts == { <<Ch("1.2.3.4")>>, <<Ch("["), Ch(":"), Ch(":"), Ch("1]")>> }
Ports == { <<Ch("8388")>>, <<Ch("http")>>, <<>> }
Fragments ==
  { <<>>, <<Hash, Ch("old")>>, <<Hash, Ch("a"), Ch("@"), Ch("b"), Ch(":"),
                                 Ch("c")>> }

SsLinks ==
  { ss_link(scheme, <<Ch("aes-256-gcm")>>, password, host, port, padded,
            frag) :
      scheme \in {"ss://", "SS://"}, password \in Passwords,
      host \in Hosts, port \in Ports, padded \in BOOLEAN,
      frag \in Fragments }

\* ss links whose userinfo is no base64 of method:password.
BadSsLinks ==
  { <<Ch(scheme), userinfo, Ch("@"), Ch("1.2.3.4"), Ch(":"), Ch("8388")>> :
      scheme \in {"ss://", "SS://"},
      userinfo \in {Ch("payload"), B64(TRUE, Bytes),
                    B64(FALSE, Utf8(<<Ch("nocolon")>>))} }

SocksLinks ==
  { socks_link(scheme, auth, host, port, frag) :
      scheme \in {"socks5://", "Socks5://", "socks://", "Socks://"},
      auth \in {<<>>, <<Ch("user"), Ch(":"), Ch("pass"), Ch("@")>>},
      host \in {<<Ch("5.6.7.8")>>},
      port \in {<<Ch("1080")>>, <<Ch("http")>>},
      frag \in {<<>>, <<Hash, Ch("old")>>} }

VmessLinks ==
  { <<Ch(scheme), B64(TRUE, content)>> :
      scheme \in {"vmess://", "VMess://"},
      content \in {JsonObject(o) : o \in VmessObjects}
                    \cup {JsonArray, Bytes} }

OtherLinks ==
  { <<Ch(scheme), Ch("uuid"), Ch("@"), Ch("v.example"), Ch(":"), Ch("443")>> :
      scheme \in {"vless://", "VLESS://", "trojan://", "Trojan://",
                  "http://", "HTTP://"} }

DecodeInputs == SsLinks \cup BadSsLinks \cup SocksLinks \cup VmessLinks
                  \cup OtherLinks

\* A share link about to be decoded.
InitDecode ==
  /\ files = [f \in Paths |-> Absent]
  /\ lock = 0
  /\ pc = [p \in Procs |-> "new"]
  /\ op = [p \in Procs |-> NoOp]
  /\ snap = [p \in Procs |-> <<>>]
  /\ tosave = [p \in Procs |-> <<>>]
  /\ result = [p \in Procs |-> "none"]
  /\ now = 0
  /\ committed = <<>>
  /\ hiwater = [r \in 1..MaxOps |-> 0]
  /\ started = 0
  /\ live = {}
  /\ nextRid = 1
  /\ arg \in {Some(s) : s \in DecodeInputs}
  /\ ret = None

\* proxy = parse_share_to_clash(node.share)
Decode ==
  /\ ret = None
  /\ ret' = Some(parse_share_to_clash(arg[1]))
  /\ UNCHANGED <<files, lock, pc, op, snap, tosave, result, now, committed,
                 hiwater, started, live, nextRid, arg>>

NextDecode == Decode

SpecDecode == InitDecode /\ [][NextDecode]_vars

C21_WitnessPort ==
  /\ arg[1] \in SsLinks
  /\ ret = Some(None)

\* The link with every scheme letter in lower case.
LowerCase(share) == [i \in 1..Len(share) |-> lower(share[i])]

\* C22: the result of decode does not depend on the letter case of the
\* scheme: a link decodes to what its lower-case form decodes to, and
\* vless, trojan and http links decode to nothing in any case.
C22_CaseInsensitive ==
  ret # None =>
    /\ ret[1] = parse_share_to_clash(LowerCase(arg[1]))
    /\ arg[1] \in OtherLinks => ret[1] = None

\* ------------------------------------------------------ failing saves
\* Mutant of SaveFail: the exception leaves the method without passing the
\* exit of the with block.
SaveFail_no_exit(p) ==
  /\ pc[p] \in {"mkstemp", "dump", "move"}
  /\ files' = files
  /\ pc' = [pc EXCEPT ![p] = IF op[p].kind = "init" THEN "new" ELSE "ready"]
  /\ op' = [op EXCEPT ![p] = NoOp]
  /\ result' = [result EXCEPT ![p] = "OSError"]
  /\ UNCHANGED <<lock, snap, tosave, now, committed, hiwater, started, live,
                 nextRid, arg, ret>>

\* _save_config raising: tempfile.mkstemp fails before the try block, or
\* yaml.dump or shutil.move fails inside it, where the handler unlinks the
\* temporary file (an unlink that fails itself leaves the file) and raises
\* again.  In a store method the exception leaves the with block, which
\* releases the lock; in the constructor it ends the construction.
SaveFail(p) ==
  /\ pc[p] \in {"mkstemp", "dump", "move"}
  /\ \E unlinked \in BOOLEAN :
       files' = IF pc[p] # "mkstemp" /\ unlinked
                THEN [files EXCEPT ![TempPath(p)] = Absent]
                ELSE files
  /\ IF op[p].kind = "init"
     THEN /\ pc' = [pc EXCEPT ![p] = "new"]
          /\ op' = [op EXCEPT ![p] = NoOp]
          /\ UNCHANGED result
     ELSE /\ pc' = [pc EXCEPT ![p] = "release"]
          /\ result' = [result EXCEPT ![p] = "OSError"]
          /\ UNCHANGED op
  /\ UNCHANGED <<lock, snap, tosave, now, committed, hiwater, started, live,
                 nextRid, arg, ret>>

\* One step of a store method of process p, from the wait for the lock to
\* its release.
Operation(p) ==
  \/ Create(p)
  \/ Rotate(p)
  \/ Delete(p)
  \/ GetByToken(p)
  \/ LoadApply(p)
  \/ Mkstemp(p)
  \/ Dump(p)
  \/ Move(p)
  \/ SaveFail(p)
  \/ Release(p)

NextFaulty ==
  \/ \E p \in Procs :
       \/ Construct(p)
       \/ Enter(p)
       \/ Create(p)
       \/ Rotate(p)
       \/ Delete(p)
       \/ GetByToken(p)
       \/ LoadApply(p)
       \/ Mkstemp(p)
       \/ Dump(p)
       \/ Move(p)
       \/ SaveFail(p)
       \/ Release(p)

\* The store with saves that may fail.
SpecFaulty == Init /\ [][NextFaulty]_vars

\* Every process is scheduled again and again: FileLock.acquire polls
\* without a timeout until the lock is free, and a process inside a method
\* runs on to the end of the with block.
SpecFair == SpecFaulty /\ \A p \in Procs : WF_vars(Operation(p))

\* ------------------------------------------------------- claims: lock
\* A process is inside the critical section of a store method.
InCritical(p) ==
  pc[p] \in {"load", "mkstemp", "dump", "move", "release"}
    /\ op[p].kind # "init"

\* The lock is held by exactly the process inside a critical section.
LockReleased ==
  /\ \A p \in Procs : lock = p <=> InCritical(p)
  /\ \A p, q \in Procs : InCritical(p) /\ InCritical(q) => p = q

\* C24: the store lock is free when an operation has ended, whatever its
\* outcome (success, not found, conflict, failed save), and with fairly
\* scheduled callers every operation waiting for the lock gets it and
\* completes.
C24_LockReleased ==
  /\ []LockReleased
  /\ \A p \in Procs : (pc[p] = "called") ~> (pc[p] = "load")
  /\ \A p \in Procs : (pc[p] = "load") ~> (pc[p] = "ready" /\ lock # p)

\* An operation whose save failed has ended and the lock is free.
C24_Witness ==
  \E p \in Procs : pc[p] = "ready" /\ result[p] = "OSError" /\ lock = 0

\* An operation that raised the conflict has ended and the lock is free.
C24_WitnessConflict ==
  \E p \in Procs : pc[p] = "ready" /\ result[p] = "ValueError" /\ lock = 0

\* A process waits for the lock another process holds.
C24_WitnessWaiting ==
  \E p, q \in Procs : pc[p] = "called" /\ lock = q /\ pc[q] = "move"

\* ------------------------------------------------------ check, then act
\* The store reached through the two entry points that look the customer
\* up and then act in a second store call, next to create.
NextCheckThenAct ==
  \/ \E p \in Procs :
       \/ Construct(p)
       \/ Enter(p)
       \/ Create(p)
       \/ AdminDelete(p)
       \/ AdminCheck(p)
       \/ CliSetOverride(p)
       \/ CliCheck(p)
       \/ Acquire(p)
       \/ Report(p)
       \/ LoadApply(p)
       \/ Mkstemp(p)
       \/ Dump(p)
       \/ Move(p)
       \/ Release(p)

SpecCheckThenAct == Init /\ [][NextCheckThenAct]_vars

\* ------------------------------------------------ claims: check, then act
\* C25: a request that checks and then acts in a second store call reports
\* success only if that second call changed the collection: set_override
\* returned the customer it saved, delete_customer returned True.
C25_SuccessMeansChanged ==
  \A p \in Procs :
    op[p].kind = "reported" => op[p].second \in {"ok", "True"}

\* Two delete requests for one token both answered 200, one of them after
\* a delete_customer that returned False.
C25_BothDeleted ==
  \E p, q \in Procs :
    /\ op[p] = [kind |-> "reported", via |-> "admin", second |-> "True"]
    /\ op[q] = [kind |-> "reported", via |-> "admin", second |-> "False"]
    /\ result[p] = "HTTP200"
    /\ result[q] = "HTTP200"

\* A set-override command that exits with 0 after a set_override that
\* returned None, the record having been deleted after its check.
C25_OverrideLost ==
  \E p, q \in Procs :
    /\ op[p] = [kind |-> "reported", via |-> "cli", second |-> "None"]
    /\ op[q] = [kind |-> "reported", via |-> "admin", second |-> "True"]
    /\ result[p] = "exit0"

====
